---------------------------- MODULE Spec2Model ----------------------------
(***************************************************************************)
(* Two-point interpolation: the trapezoidal (constant acceleration)        *)
(* planner of two_point_interpolation/constant_acc.py and the jerk-limited *)
(* planner of two_point_interpolation/constant_jerk.py, as state machines  *)
(* over one planner instance.                                              *)
(*                                                                         *)
(* Numbers.  The program computes in IEEE doubles.  The model computes in  *)
(* exact rationals <<n, d>> (d > 0, lowest terms).  np.sqrt and np.power   *)
(* (x, 1/3) return the exact root when it is rational and otherwise the    *)
(* root rounded down to a multiple of 1/RootDen, as the float operations   *)
(* round theirs.  A plan none of whose roots was rounded is called exact;  *)
(* the statements about equalities are made about exact plans.             *)
(*                                                                         *)
(* Specifications.  Spec is the lifecycle of one instance of either class  *)
(* from its construction, every method callable in any order.  SpecPlan is *)
(* one request made with init on a new instance, drawn from a grid of      *)
(* positions, velocities and limits, then planned and sampled.  SpecAngle  *)
(* is the lifecycle of one TwoAngleInterpolation instance.                 *)
(***************************************************************************)
EXTENDS Integers, Sequences, FiniteSets, TLC

----------------------------------------------------------------------------
(* Rational arithmetic                                                     *)

RECURSIVE GCD(_, _)
GCD(m, n) == IF n = 0 THEN m ELSE GCD(n, m % n)

IAbs(n) == IF n < 0 THEN -n ELSE n

\* The rational n/d in lowest terms with a positive denominator.
Q(n, d) ==
    LET s == IF d < 0 THEN -1 ELSE 1
        g == GCD(IAbs(n), IAbs(d))
    IN  <<(s * n) \div g, (s * d) \div g>>

Num(x) == x[1]
Den(x) == x[2]

Zero == <<0, 1>>
One == <<1, 1>>
Two == <<2, 1>>
Half == <<1, 2>>

\* Sums, products and comparisons cancel common factors before they
\* multiply, which keeps the intermediate integers small.
Add(x, y) ==
    LET g == GCD(x[2], y[2])
    IN  Q(x[1] * (y[2] \div g) + y[1] * (x[2] \div g), (x[2] \div g) * y[2])
Neg(x) == <<-x[1], x[2]>>
Sub(x, y) == Add(x, Neg(y))
Mul(x, y) ==
    LET g1 == GCD(IAbs(x[1]), y[2])
        g2 == GCD(IAbs(y[1]), x[2])
    IN  <<(x[1] \div g1) * (y[1] \div g2), (x[2] \div g2) * (y[2] \div g1)>>
Inv(x) == IF x[1] < 0 THEN <<-x[2], -x[1]>> ELSE <<x[2], x[1]>>
Div(x, y) == Mul(x, Inv(y))
Lt(x, y) ==
    LET g == GCD(x[2], y[2])
    IN  x[1] * (y[2] \div g) < y[1] * (x[2] \div g)
Le(x, y) ==
    LET g == GCD(x[2], y[2])
    IN  x[1] * (y[2] \div g) <= y[1] * (x[2] \div g)
Gt(x, y) == Lt(y, x)
Ge(x, y) == Le(y, x)
Sq(x) == Mul(x, x)
Cube(x) == Mul(x, Mul(x, x))
Min(x, y) == IF Lt(y, x) THEN y ELSE x

\* np.fabs, abs
fabs(x) == <<IAbs(x[1]), x[2]>>

\* A faulty sum, for testing the properties of the duration: it leaves
\* out the last term.
RECURSIVE SumButLast(_)
SumButLast(s) ==
    IF Len(s) <= 1 THEN Zero ELSE Add(Head(s), SumButLast(Tail(s)))

RECURSIVE Sum(_)
Sum(s) ==
    IF s = <<>> THEN Zero ELSE Add(Head(s), Sum(Tail(s)))

\* The largest k in lo..hi with k^e <= n (e = 2 or 3), by bisection.
RECURSIVE IRootIn(_, _, _, _)
IRootIn(n, e, lo, hi) ==
    IF lo >= hi THEN lo
    ELSE LET mid == (lo + hi + 1) \div 2
             pw == IF e = 2 THEN mid * mid ELSE mid * mid * mid
         IN  IF pw <= n THEN IRootIn(n, e, mid, hi)
                        ELSE IRootIn(n, e, lo, mid - 1)

RootCap == 1000

IRoot(n, e) == IRootIn(n, e, 0, IF n < RootCap THEN n ELSE RootCap)

IsPower(n, e) ==
    LET k == IRoot(n, e)
    IN  (IF e = 2 THEN k * k ELSE k * k * k) = n

\* Whether the e-th root of the rational x >= 0 is rational.
ExactRoot(x, e) == x[1] >= 0 /\ IsPower(x[1], e) /\ IsPower(x[2], e)

RootBits == 4
RootDen == 2 ^ RootBits

\* The e-th root of x >= 0: exact when rational, else rounded down to a
\* multiple of 1/RootDen.
Root(x, e) ==
    IF ExactRoot(x, e)
    THEN <<IRoot(x[1], e), IRoot(x[2], e)>>
    ELSE LET scale == IF e = 2 THEN RootDen * RootDen
                               ELSE RootDen * RootDen * RootDen
             \* (x[1] * scale) \div x[2], on smaller intermediate values
             scaled == (x[1] \div x[2]) * scale
                          + ((x[1] % x[2]) * scale) \div x[2]
         IN  Q(IRoot(scaled, e), RootDen)

\* np.sqrt
sqrt(x) == Root(x, 2)

\* np.power(x, 1/3.0)
cbrt(x) == Root(x, 3)

----------------------------------------------------------------------------
(* constant_acc.py: helpers                                                *)

v_integ(v0, a, dt) == Add(v0, Mul(a, dt))

p_integ(p0, v0, a, dt) == Add(Add(p0, Mul(v0, dt)), Mul(Mul(Half, a), Sq(dt)))


\* A faulty tolerance, for testing the properties of the diagnostics: 0.1.
DECEL_DISTANCE_TOLERANCE_TENTH ==
    <<1, 10>>

\* DECEL_DISTANCE_TOLERANCE = 0.02
DECEL_DISTANCE_TOLERANCE ==
    <<1, 50>>

\* Python's None (dec_max, pe left unspecified).
None == <<>>

----------------------------------------------------------------------------
(* What a call does: the instance after it, and what the caller sees: the  *)
(* value returned or the exception raised, and the warnings issued.        *)

Returned(s, op, args, value, nwarn) ==
    [self |-> s,
     ret |-> [op |-> op, args |-> args, outcome |-> "return", exc |-> "",
              msg |-> "", value |-> value, warnings |-> nwarn]]

Raised(s, op, args, exc, msg, nwarn) ==
    [self |-> s,
     ret |-> [op |-> op, args |-> args, outcome |-> "raise", exc |-> exc,
              msg |-> msg, value |-> <<>>, warnings |-> nwarn]]

----------------------------------------------------------------------------
(* constant_acc.py: class TwoPointInterpolation                            *)

\* A faulty __init__, for testing the lifecycle properties: the instance is
\* constructed with trajectory_calced set.
AccNewCalced ==
    [point_setted |-> FALSE, constraints_setted |-> FALSE,
     initial_state_setted |-> FALSE, trajectory_calced |-> TRUE,
     t0 |-> Zero, p0 |-> Zero, v0 |-> Zero, pe |-> Zero, ve |-> Zero,
     vmax |-> Zero, amax_accel |-> Zero, amax_decel |-> Zero,
     dt |-> <<>>, a |-> <<>>, v |-> <<>>, p |-> <<>>, case |-> 0]

\* __init__
AccNew ==
    [point_setted |-> FALSE, constraints_setted |-> FALSE,
     initial_state_setted |-> FALSE, trajectory_calced |-> FALSE,
     t0 |-> Zero, p0 |-> Zero, v0 |-> Zero, pe |-> Zero, ve |-> Zero,
     vmax |-> Zero, amax_accel |-> Zero, amax_decel |-> Zero,
     dt |-> <<>>, a |-> <<>>, v |-> <<>>, p |-> <<>>, case |-> 0]

set_initial(s, t0, p0, v0) ==
    Returned([s EXCEPT !.t0 = t0, !.p0 = p0, !.v0 = v0,
                       !.initial_state_setted = TRUE],
             "set_initial", <<t0, p0, v0>>, None, 0)

set_point(s, pe, ve) ==
    Returned([s EXCEPT !.pe = pe, !.ve = ve, !.point_setted = TRUE],
             "set_point", <<pe, ve>>, None, 0)

\* A faulty set_constraints, for testing the validation properties: it
\* does not test vmax.
set_constraints_vmax_untested(s, acc_max, vmax, dec_max) ==
    LET args == <<acc_max, vmax, dec_max>>
        dec == IF dec_max = None THEN acc_max ELSE dec_max
    IN  IF Le(acc_max, Zero)
        THEN Raised(s, "set_constraints", args, "ValueError",
                    "acc_max must be positive", 0)
        ELSE IF Le(dec, Zero)
        THEN Raised(s, "set_constraints", args, "ValueError",
                    "dec_max must be positive", 0)
        ELSE Returned([s EXCEPT !.amax_accel = acc_max, !.amax_decel = dec,
                                !.vmax = vmax, !.constraints_setted = TRUE],
                      "set_constraints", args, None, 0)

\* A faulty set_constraints, for testing the default: a dec_max left
\* unspecified defaults to vmax.
set_constraints_default_vmax(s, acc_max, vmax, dec_max) ==
    LET args == <<acc_max, vmax, dec_max>>
        dec == IF dec_max = None THEN vmax ELSE dec_max
    IN  IF Le(acc_max, Zero)
        THEN Raised(s, "set_constraints", args, "ValueError",
                    "acc_max must be positive", 0)
        ELSE IF Le(vmax, Zero)
        THEN Raised(s, "set_constraints", args, "ValueError",
                    "vmax must be positive", 0)
        ELSE IF Le(dec, Zero)
        THEN Raised(s, "set_constraints", args, "ValueError",
                    "dec_max must be positive", 0)
        ELSE Returned([s EXCEPT !.amax_accel = acc_max, !.amax_decel = dec,
                                !.vmax = vmax, !.constraints_setted = TRUE],
                      "set_constraints", args, None, 0)

set_constraints(s, acc_max, vmax, dec_max) ==
    LET args == <<acc_max, vmax, dec_max>>
        dec == IF dec_max = None THEN acc_max ELSE dec_max
    IN  IF Le(acc_max, Zero)
        THEN Raised(s, "set_constraints", args, "ValueError",
                    "acc_max must be positive", 0)
        ELSE IF Le(vmax, Zero)
        THEN Raised(s, "set_constraints", args, "ValueError",
                    "vmax must be positive", 0)
        ELSE IF Le(dec, Zero)
        THEN Raised(s, "set_constraints", args, "ValueError",
                    "dec_max must be positive", 0)
        ELSE Returned([s EXCEPT !.amax_accel = acc_max, !.amax_decel = dec,
                                !.vmax = vmax, !.constraints_setted = TRUE],
                      "set_constraints", args, None, 0)

\* _raise_deceleration_error always raises ValueError; this is the phrase
\* its message begins with or, for "nearly equal", contains (the formatted
\* numbers and advice of the message are left out).
_raise_deceleration_error(v0, ve, dp, dec, sign, context) ==
    LET decel_distance == Div(Sub(Sq(v0), Sq(ve)), Mul(Two, fabs(dec)))
        is_moving_toward_target == Gt(Mul(sign, v0), Zero)
    IN  IF /\ is_moving_toward_target
           /\ Lt(fabs(Sub(decel_distance, fabs(dp))),
                 Mul(fabs(dp), DECEL_DISTANCE_TOLERANCE))
        THEN IF context = "discriminant"
             THEN "No valid trajectory found: nearly equal to available distance"
             ELSE "Insufficient distance for trajectory planning: nearly equal to available distance"
        ELSE IF is_moving_toward_target /\ Gt(decel_distance, fabs(dp))
        THEN "Insufficient distance to decelerate"
        ELSE IF context = "discriminant"
             THEN "No valid trajectory found (discriminant <= 0)"
             ELSE "No positive time solution found for trajectory"

\* Lines 254-267: the direction sign, the signed limits and the quadratic
\* a_coeff*t1^2 + b_coeff*t1 + c_coeff = 0 for the acceleration time t1.
Quadratic(s) ==
    LET dp == Sub(s.pe, s.p0)
        sign == Div(dp, fabs(dp))
        acc == Mul(s.amax_accel, sign)
        dec == Mul(s.amax_decel, sign)
        ratio == Div(acc, dec)
        a_coeff == Mul(Mul(Half, acc), Add(One, ratio))
        b_coeff == Mul(s.v0, Add(One, ratio))
        c_coeff == Add(Neg(dp),
                       Div(Sub(Sq(s.v0), Sq(s.ve)), Mul(Two, dec)))
    IN  [dp |-> dp, sign |-> sign, acc |-> acc, dec |-> dec,
         a_coeff |-> a_coeff, b_coeff |-> b_coeff, c_coeff |-> c_coeff,
         discriminant |->
             Sub(Sq(b_coeff), Mul(Mul(<<4, 1>>, a_coeff), c_coeff))]

\* A faulty root selection, for testing the properties of the roots: of
\* two positive roots it takes the larger.
SelectRootLarger(q) ==
    LET sqrt_disc == sqrt(q.discriminant)
        dt01_plus == Div(Add(Neg(q.b_coeff), sqrt_disc), Mul(Two, q.a_coeff))
        dt01_minus == Div(Sub(Neg(q.b_coeff), sqrt_disc), Mul(Two, q.a_coeff))
    IN  IF Gt(dt01_plus, Zero) /\ Gt(dt01_minus, Zero)
        THEN IF Lt(dt01_plus, dt01_minus) THEN dt01_minus ELSE dt01_plus
        ELSE IF Gt(dt01_plus, Zero) THEN dt01_plus
        ELSE IF Gt(dt01_minus, Zero) THEN dt01_minus
        ELSE None

\* A faulty root selection, for testing the properties of the failures: it
\* accepts a root of zero.
SelectRootNonNegative(q) ==
    LET sqrt_disc == sqrt(q.discriminant)
        dt01_plus == Div(Add(Neg(q.b_coeff), sqrt_disc), Mul(Two, q.a_coeff))
        dt01_minus == Div(Sub(Neg(q.b_coeff), sqrt_disc), Mul(Two, q.a_coeff))
    IN  IF Ge(dt01_plus, Zero) /\ Ge(dt01_minus, Zero)
        THEN Min(dt01_plus, dt01_minus)
        ELSE IF Ge(dt01_plus, Zero) THEN dt01_plus
        ELSE IF Ge(dt01_minus, Zero) THEN dt01_minus
        ELSE None

\* Lines 279-293: the roots of the quadratic and the choice among them;
\* None when neither is positive.
SelectRoot(q) ==
    LET sqrt_disc == sqrt(q.discriminant)
        dt01_plus == Div(Add(Neg(q.b_coeff), sqrt_disc), Mul(Two, q.a_coeff))
        dt01_minus == Div(Sub(Neg(q.b_coeff), sqrt_disc), Mul(Two, q.a_coeff))
    IN  IF Gt(dt01_plus, Zero) /\ Gt(dt01_minus, Zero)
        THEN Min(dt01_plus, dt01_minus)
        ELSE IF Gt(dt01_plus, Zero) THEN dt01_plus
        ELSE IF Gt(dt01_minus, Zero) THEN dt01_minus
        ELSE None

\* Lines 298-309: case 0, vmax not reached.  s holds dt = a = [], v = [v0],
\* p = [p0].
Case0(s, q, dt01, v1) ==
    LET p1 == p_integ(s.p0, s.v0, q.acc, dt01)
        dt1e == fabs(Div(Sub(v1, s.ve), q.dec))
        s1 == [s EXCEPT !.case = 0,
                        !.dt = <<dt01, dt1e>>,
                        !.a = <<q.acc, Neg(q.dec)>>,
                        !.v = Append(s.v, v1),
                        !.p = Append(s.p, p1),
                        !.trajectory_calced = TRUE]
    IN  Returned(s1, "calc_trajectory", <<>>, Sum(s1.dt), 0)

\* A faulty case 1, for testing the properties of its first phase: a start
\* at vmax exactly is planned as an acceleration.
Case1StrictOverspeed(s, q) ==
    LET vmax == s.vmax
        v1 == Mul(vmax, q.sign)
        accelerate == Le(Mul(q.sign, s.v0), Mul(q.sign, v1))
        nwarn == IF accelerate THEN 0 ELSE 1
        dt01 == IF accelerate THEN fabs(Div(Sub(v1, s.v0), q.acc))
                              ELSE fabs(Div(Sub(v1, s.v0), q.dec))
        a_phase1 == IF accelerate THEN q.acc ELSE Neg(q.dec)
        p1 == p_integ(s.p0, s.v0, a_phase1, dt01)
        s1 == [s EXCEPT !.case = 1,
                        !.dt = Append(s.dt, dt01),
                        !.a = Append(s.a, a_phase1),
                        !.v = Append(s.v, v1),
                        !.p = Append(s.p, p1)]
        v2 == v1
        dt2e == fabs(Div(Sub(v2, s.ve), q.dec))
        dp2e == p_integ(Zero, v2, Neg(q.dec), dt2e)
        dt12 == Div(Sub(Sub(s.pe, p1), dp2e), v1)
        p2 == Sub(s.pe, dp2e)
        s2 == [s1 EXCEPT !.dt = s1.dt \o <<dt12, dt2e>>,
                         !.a = s1.a \o <<Zero, Neg(q.dec)>>,
                         !.v = Append(s1.v, v2),
                         !.p = Append(s1.p, p2),
                         !.trajectory_calced = TRUE]
    IN  IF Lt(dt12, Zero)
        THEN Raised(s1, "calc_trajectory", <<>>, "ValueError",
                    "Invalid trajectory: cannot reach target with given constraints",
                    nwarn)
        ELSE Returned(s2, "calc_trajectory", <<>>, Sum(s2.dt), nwarn)

\* Lines 312-372: case 1, vmax reached.
Case1(s, q) ==
    LET vmax == s.vmax
        v1 == Mul(vmax, q.sign)
        accelerate == Lt(Mul(q.sign, s.v0), Mul(q.sign, v1))
        nwarn == IF accelerate THEN 0 ELSE 1
        dt01 == IF accelerate THEN fabs(Div(Sub(v1, s.v0), q.acc))
                              ELSE fabs(Div(Sub(v1, s.v0), q.dec))
        a_phase1 == IF accelerate THEN q.acc ELSE Neg(q.dec)
        p1 == p_integ(s.p0, s.v0, a_phase1, dt01)
        s1 == [s EXCEPT !.case = 1,
                        !.dt = Append(s.dt, dt01),
                        !.a = Append(s.a, a_phase1),
                        !.v = Append(s.v, v1),
                        !.p = Append(s.p, p1)]
        v2 == v1
        dt2e == fabs(Div(Sub(v2, s.ve), q.dec))
        dp2e == p_integ(Zero, v2, Neg(q.dec), dt2e)
        dt12 == Div(Sub(Sub(s.pe, p1), dp2e), v1)
        p2 == Sub(s.pe, dp2e)
        s2 == [s1 EXCEPT !.dt = s1.dt \o <<dt12, dt2e>>,
                         !.a = s1.a \o <<Zero, Neg(q.dec)>>,
                         !.v = Append(s1.v, v2),
                         !.p = Append(s1.p, p2),
                         !.trajectory_calced = TRUE]
    IN  IF Lt(dt12, Zero)
        THEN Raised(s1, "calc_trajectory", <<>>, "ValueError",
                    "Invalid trajectory: cannot reach target with given constraints",
                    nwarn)
        ELSE Returned(s2, "calc_trajectory", <<>>, Sum(s2.dt), nwarn)

\* A faulty case selection, for testing the properties of the cases: a
\* velocity v1 equal to vmax is planned as case 0.
CalcMotionCapInclusive(s) ==
    LET s0 == [s EXCEPT !.dt = <<>>, !.a = <<>>,
                        !.v = <<s.v0>>, !.p = <<s.p0>>]
        q == Quadratic(s)
        dt01 == SelectRoot(q)
        v1 == v_integ(s.v0, q.acc, dt01)
    IN  IF Le(q.discriminant, Zero)
        THEN Raised(s0, "calc_trajectory", <<>>, "ValueError",
                    _raise_deceleration_error(s.v0, s.ve, q.dp, q.dec, q.sign,
                                              "discriminant"), 0)
        ELSE IF dt01 = None
        THEN Raised(s0, "calc_trajectory", <<>>, "ValueError",
                    _raise_deceleration_error(s.v0, s.ve, q.dp, q.dec, q.sign,
                                              "no_positive_solution"), 0)
        ELSE IF Le(fabs(v1), s.vmax)
        THEN Case0(s0, q, dt01, v1)
        ELSE Case1(s0, q)

\* Lines 249-375: the plan for a nonzero displacement.
CalcMotion(s) ==
    LET s0 == [s EXCEPT !.dt = <<>>, !.a = <<>>,
                        !.v = <<s.v0>>, !.p = <<s.p0>>]
        q == Quadratic(s)
        dt01 == SelectRoot(q)
        v1 == v_integ(s.v0, q.acc, dt01)
    IN  IF Le(q.discriminant, Zero)
        THEN Raised(s0, "calc_trajectory", <<>>, "ValueError",
                    _raise_deceleration_error(s.v0, s.ve, q.dp, q.dec, q.sign,
                                              "discriminant"), 0)
        ELSE IF dt01 = None
        THEN Raised(s0, "calc_trajectory", <<>>, "ValueError",
                    _raise_deceleration_error(s.v0, s.ve, q.dp, q.dec, q.sign,
                                              "no_positive_solution"), 0)
        ELSE IF Lt(fabs(v1), s.vmax)
        THEN Case0(s0, q, dt01, v1)
        ELSE Case1(s0, q)

calc_trajectory(s) ==
    IF ~s.point_setted
    THEN Raised(s, "calc_trajectory", <<>>, "ValueError",
                "End point not set. Call set_point() first.", 0)
    ELSE IF ~s.constraints_setted
    THEN Raised(s, "calc_trajectory", <<>>, "ValueError",
                "Constraints not set. Call set_constraints() first.", 0)
    ELSE IF ~s.initial_state_setted
    THEN Raised(s, "calc_trajectory", <<>>, "ValueError",
                "Initial state not set. Call set_initial() first.", 0)
    ELSE IF Sub(s.pe, s.p0) = Zero
    THEN IF Sub(s.ve, s.v0) = Zero
         THEN Returned([s EXCEPT !.dt = <<>>, !.a = <<>>, !.v = <<s.v0>>,
                                 !.p = <<s.p0>>, !.case = -1,
                                 !.trajectory_calced = TRUE],
                       "calc_trajectory", <<>>, Zero, 0)
         ELSE Raised(s, "calc_trajectory", <<>>, "ValueError",
                     "Changing velocity at the same position (dp=0, dv!=0) is not supported.",
                     0)
    ELSE CalcMotion(s)

\* init(p0, pe, acc_max, vmax, t0, v0, ve, dec_max)
init(s, p0, pe, acc_max, vmax, t0, v0, ve, dec_max) ==
    LET r == set_constraints(set_point(set_initial(s, t0, p0, v0).self,
                                       pe, ve).self,
                             acc_max, vmax, dec_max)
    IN  [self |-> r.self,
         ret |-> [r.ret EXCEPT !.op = "init",
                               !.args = <<p0, pe, acc_max, vmax, t0, v0, ve,
                                          dec_max>>]]

\* SubSeq(dt, 1, i) summed: sum(self.dt[:i]) for a 0-based i.
SumBefore(dt, i) == Sum(SubSeq(dt, 1, i))

\* A faulty phase lookup, for testing the boundary properties: a time on a
\* phase boundary is looked up in the phase that starts there.
RECURSIVE FindPhaseStrict(_, _, _)
FindPhaseStrict(dt, tau, i) ==
    IF i > Len(dt) THEN 0
    ELSE IF Lt(tau, Add(SumBefore(dt, i - 1), dt[i])) THEN i
    ELSE FindPhaseStrict(dt, tau, i + 1)

\* Lines 407-414: the first 1-based i with tau <= sum(dt[:i]); 0 when the
\* loop ends without a break.
RECURSIVE FindPhase(_, _, _)
FindPhase(dt, tau, i) ==
    IF i > Len(dt) THEN 0
    ELSE IF Le(tau, Add(SumBefore(dt, i - 1), dt[i])) THEN i
    ELSE FindPhase(dt, tau, i + 1)

\* A faulty get_point, for testing the window properties: it has no branch
\* for the times at or after the end of the plan.
get_point_unclamped(s, t) ==
    LET tau == Sub(t, s.t0)
        i == FindPhase(s.dt, tau, 1)
        t_in == IF i = 0 THEN tau ELSE Sub(tau, SumBefore(s.dt, i - 1))
        a_in == IF i = 0 THEN Zero ELSE s.a[i]
        v_in == IF i = 0 THEN Zero ELSE s.v[i]
        p_in == IF i = 0 THEN Zero ELSE s.p[i]
    IN  IF s.case = -1
        THEN Returned(s, "get_point", <<t>>, <<s.p0, s.v0, Zero>>, 0)
        ELSE IF Lt(tau, Zero)
        THEN Returned(s, "get_point", <<t>>, <<s.p0, s.v0, Zero>>, 0)
        ELSE Returned(s, "get_point", <<t>>,
                      <<p_integ(p_in, v_in, a_in, t_in),
                        v_integ(v_in, a_in, t_in), a_in>>, 0)

\* A faulty get_point, for testing the read-only properties: it moves the
\* start time of the plan to the time asked for.
get_point_advancing(s, t) ==
    LET tau == Sub(t, s.t0)
        i == FindPhase(s.dt, tau, 1)
        t_in == IF i = 0 THEN tau ELSE Sub(tau, SumBefore(s.dt, i - 1))
        a_in == IF i = 0 THEN Zero ELSE s.a[i]
        v_in == IF i = 0 THEN Zero ELSE s.v[i]
        p_in == IF i = 0 THEN Zero ELSE s.p[i]
        s1 == [s EXCEPT !.t0 = t]
    IN  IF s.case = -1
        THEN Returned(s1, "get_point", <<t>>, <<s.p0, s.v0, Zero>>, 0)
        ELSE IF Lt(tau, Zero)
        THEN Returned(s1, "get_point", <<t>>, <<s.p0, s.v0, Zero>>, 0)
        ELSE IF Ge(tau, Sum(s.dt))
        THEN Returned(s1, "get_point", <<t>>, <<s.pe, s.ve, Zero>>, 0)
        ELSE Returned(s1, "get_point", <<t>>,
                      <<p_integ(p_in, v_in, a_in, t_in),
                        v_integ(v_in, a_in, t_in), a_in>>, 0)

get_point(s, t) ==
    LET tau == Sub(t, s.t0)
        i == FindPhase(s.dt, tau, 1)
        t_in == IF i = 0 THEN tau ELSE Sub(tau, SumBefore(s.dt, i - 1))
        a_in == IF i = 0 THEN Zero ELSE s.a[i]
        v_in == IF i = 0 THEN Zero ELSE s.v[i]
        p_in == IF i = 0 THEN Zero ELSE s.p[i]
    IN  IF s.case = -1
        THEN Returned(s, "get_point", <<t>>, <<s.p0, s.v0, Zero>>, 0)
        ELSE IF Lt(tau, Zero)
        THEN Returned(s, "get_point", <<t>>, <<s.p0, s.v0, Zero>>, 0)
        ELSE IF Ge(tau, Sum(s.dt))
        THEN Returned(s, "get_point", <<t>>, <<s.pe, s.ve, Zero>>, 0)
        ELSE Returned(s, "get_point", <<t>>,
                      <<p_integ(p_in, v_in, a_in, t_in),
                        v_integ(v_in, a_in, t_in), a_in>>, 0)

\* get_duration() and get_end_time(): the total duration of the plan and
\* the time at which it ends; both raise RuntimeError before
\* calc_trajectory has computed a plan.
get_duration(s) ==
    IF ~s.trajectory_calced
    THEN Raised(s, "get_duration", <<>>, "RuntimeError",
                "Trajectory not calculated", 0)
    ELSE Returned(s, "get_duration", <<>>, Sum(s.dt), 0)

get_end_time(s) ==
    IF ~s.trajectory_calced
    THEN Raised(s, "get_end_time", <<>>, "RuntimeError",
                "Trajectory not calculated", 0)
    ELSE Returned(s, "get_end_time", <<>>, Add(s.t0, Sum(s.dt)), 0)

----------------------------------------------------------------------------
(* constant_acc.py: normalize_angle and class TwoAngleInterpolation, which *)
(* inherits every other method of the trapezoidal class.  The model        *)
(* measures angles in units of ten degrees, so that pi is a rational       *)
(* number; the planner is linear in the unit of position.                  *)

Pi == <<18, 1>>

\* np.pi, the double nearest to pi, which is smaller than pi: the angles a
\* caller computes from it (2*np.pi for a turn) fall short of the angles
\* that sin and cos are periodic in.
np_pi == Sub(Pi, <<1, 64>>)

\* floor(x)
Floor(x) == x[1] \div x[2]

\* A faulty normalize_angle, for testing the angular properties: it reduces
\* the angle to [0, 2 pi).
normalize_angle_positive(angle) ==
    LET turn == Mul(Two, Pi)
        k == Floor(Div(angle, turn))
    IN  Sub(angle, Mul(<<k, 1>>, turn))

\* atan2(sin(angle), cos(angle)): the angle less whole turns, in [-pi, pi].
\* At an odd multiple of pi the floating-point sine has the sign of the
\* angle, and the result is pi or -pi accordingly.
normalize_angle(angle) ==
    LET turn == Mul(Two, Pi)
        k == Floor(Div(Add(angle, Pi), turn))
        r == Sub(angle, Mul(<<k, 1>>, turn))
    IN  IF r = Neg(Pi)
        THEN IF Lt(angle, Zero) THEN Neg(Pi) ELSE Pi
        ELSE r

\* TwoAngleInterpolation.init
angle_init(s, p0, pe, acc_max, vmax, t0, v0, ve, dec_max) ==
    LET p0_normalized == normalize_angle(p0)
        pe_normalized == normalize_angle(pe)
        dp == normalize_angle(Sub(pe_normalized, p0_normalized))
        r == set_constraints(
                 set_point(set_initial(s, t0, p0_normalized, v0).self,
                           Add(p0_normalized, dp), ve).self,
                 acc_max, vmax, dec_max)
    IN  [self |-> r.self,
         ret |-> [r.ret EXCEPT !.op = "init",
                               !.args = <<p0, pe, acc_max, vmax, t0, v0, ve,
                                          dec_max>>]]

\* TwoAngleInterpolation.get_point(t, normalize_output)
angle_get_point(s, t, normalize_output) ==
    LET r == get_point(s, t)
        p == r.ret.value[1]
    IN  [self |-> r.self,
         ret |-> [r.ret EXCEPT
                      !.args = <<t, normalize_output>>,
                      !.value = <<IF normalize_output THEN normalize_angle(p)
                                  ELSE p,
                                  r.ret.value[2], r.ret.value[3]>>]]

----------------------------------------------------------------------------
(* constant_jerk.py: class TwoPointInterpolation.  __init__ creates the    *)
(* four flags only; every other attribute exists once a method has         *)
(* assigned it.  attrs is the set of attributes that exist (hasattr);      *)
(* reading one that does not raises AttributeError.                        *)

JerkNew ==
    [point_setted |-> FALSE, constraints_setted |-> FALSE,
     initial_state_setted |-> FALSE, trajectory_calced |-> FALSE,
     attrs |-> {},
     t0 |-> Zero, p0 |-> Zero, v0 |-> Zero, ps |-> Zero, pe |-> Zero,
     ve |-> Zero, vmax |-> Zero, amax |-> Zero, jmax |-> Zero,
     t1 |-> Zero, t2 |-> Zero, t3 |-> Zero, te |-> Zero, case |-> 0]

hasattr(s, name) == name \in s.attrs

jerk_set_initial_time(s, time) ==
    Returned([s EXCEPT !.t0 = time, !.attrs = @ \cup {"t0"}],
             "set_initial_time", <<time>>, None, 0)

jerk_set_initial(s, t0, p0, v0) ==
    Returned([s EXCEPT !.t0 = t0, !.p0 = p0, !.v0 = v0,
                       !.attrs = @ \cup {"t0", "p0", "v0"},
                       !.initial_state_setted = TRUE],
             "set_initial", <<t0, p0, v0>>, None, 0)

\* A faulty set_point, for testing the flag properties: it stores the
\* positions and leaves point_setted as it was.
jerk_set_point_unflagged(s, ps, pe) ==
    Returned(IF pe = None
             THEN [s EXCEPT !.pe = ps, !.ve = Zero,
                            !.attrs = @ \cup {"pe", "ve"}]
             ELSE [s EXCEPT !.ps = ps, !.pe = pe,
                            !.attrs = @ \cup {"ps", "pe"}],
             "set_point", <<ps, pe>>, None, 0)

jerk_set_point(s, ps, pe) ==
    Returned(IF pe = None
             THEN [s EXCEPT !.pe = ps, !.ve = Zero,
                            !.attrs = @ \cup {"pe", "ve"},
                            !.point_setted = TRUE]
             ELSE [s EXCEPT !.ps = ps, !.pe = pe,
                            !.attrs = @ \cup {"ps", "pe"},
                            !.point_setted = TRUE],
             "set_point", <<ps, pe>>, None, 0)

\* set_constraints(amax, vmax, jmax): the keyword form.
jerk_set_constraints(s, amax, vmax, jmax) ==
    LET args == <<amax, vmax, jmax>>
    IN  IF amax = None \/ vmax = None \/ jmax = None
        THEN Raised(s, "set_constraints", args, "ValueError",
                    "amax, vmax, and jmax must all be provided", 0)
        ELSE IF Le(amax, Zero) \/ Le(vmax, Zero) \/ Le(jmax, Zero)
        THEN Raised(s, "set_constraints", args, "ValueError",
                    "All constraint values must be positive", 0)
        ELSE Returned([s EXCEPT !.amax = amax, !.vmax = vmax, !.jmax = jmax,
                                !.attrs = @ \cup {"amax", "vmax", "jmax"},
                                !.constraints_setted = TRUE],
                      "set_constraints", args, None, 0)

\* set_constraints(max_array=[vmax, amax, jmax]): the array form.
jerk_set_constraints_array(s, max_array) ==
    IF Len(max_array) # 3
    THEN Raised(s, "set_constraints", <<max_array>>, "ValueError",
                "max_array must contain [vmax, amax, jmax]", 0)
    ELSE IF \E i \in 1..3 : Le(max_array[i], Zero)
    THEN Raised(s, "set_constraints", <<max_array>>, "ValueError",
                "All constraint values must be positive", 0)
    ELSE Returned([s EXCEPT !.vmax = max_array[1], !.amax = max_array[2],
                            !.jmax = max_array[3],
                            !.attrs = @ \cup {"amax", "vmax", "jmax"},
                            !.constraints_setted = TRUE],
                  "set_constraints", <<max_array>>, None, 0)

\* set(ps, pe, max_constraints)
jerk_set(s, ps, pe, max_constraints) ==
    LET r == jerk_set_constraints_array(jerk_set_point(s, ps, pe).self,
                                        max_constraints)
    IN  [self |-> r.self,
         ret |-> [r.ret EXCEPT !.op = "set",
                               !.args = <<ps, pe, max_constraints>>]]

\* init(p0, pe, amax, vmax, jmax, t0, v0, ve)
jerk_init(s, p0, pe, amax, vmax, jmax, t0, v0, ve) ==
    LET s1 == jerk_set_point(jerk_set_initial(s, t0, p0, v0).self, pe, None).self
        r == jerk_set_constraints([s1 EXCEPT !.ve = ve], amax, vmax, jmax)
    IN  [self |-> r.self,
         ret |-> [r.ret EXCEPT !.op = "init",
                               !.args = <<p0, pe, amax, vmax, jmax, t0, v0, ve>>]]

\* Lines 125-149: the case ladder for a nonzero displacement from ps.
JerkLadder(s, ps) ==
    LET dp == Sub(s.pe, ps)
        adp == fabs(Sub(s.pe, ps))
        t1_seed == cbrt(Div(Div(fabs(dp), Two), s.jmax))
        t1_v == sqrt(Div(s.vmax, s.jmax))
        t1_a == Div(s.amax, s.jmax)
        t2_a == Add(Mul(<<-3, 2>>, t1_a),
                    Div(sqrt(Add(Div(Mul(<<4, 1>>, adp), s.amax),
                                 Mul(<<1, 3>>, Sq(t1_a)))), Two))
        t2_1 == Sub(Div(adp, s.vmax), Mul(Two, sqrt(Div(s.vmax, s.jmax))))
        t2_3 == Sub(Div(s.vmax, s.amax), t1_a)
        t3_3 == Sub(Sub(Div(adp, s.vmax), Mul(Two, t1_a)), t2_3)
        four == <<4, 1>>
    IN  IF Lt(Mul(t1_seed, s.jmax), s.amax)
        THEN IF Lt(Mul(Mul(t1_seed, s.jmax), t1_seed), s.vmax)
             THEN [s EXCEPT !.case = 0, !.t1 = t1_seed,
                            !.te = Mul(four, t1_seed),
                            !.attrs = @ \cup {"t1", "te", "case"}]
             ELSE [s EXCEPT !.case = 1, !.t1 = t1_v, !.t2 = t2_1,
                            !.te = Add(Mul(four, t1_v), t2_1),
                            !.attrs = @ \cup {"t1", "t2", "te", "case"}]
        ELSE IF Lt(Mul(Add(t1_a, t2_a), s.amax), s.vmax)
             THEN [s EXCEPT !.case = 2, !.t1 = t1_a, !.t2 = t2_a,
                            !.te = Add(Mul(four, t1_a), Mul(Two, t2_a)),
                            !.attrs = @ \cup {"t1", "t2", "te", "case"}]
             ELSE [s EXCEPT !.case = 3, !.t1 = t1_a, !.t2 = t2_3, !.t3 = t3_3,
                            !.te = Add(Add(Mul(four, t1_a), Mul(Two, t2_3)),
                                       t3_3),
                            !.attrs = @ \cup {"t1", "t2", "t3", "te", "case"}]

\* A faulty calc_trajectory, for testing the boundary-condition
\* properties: with dp == 0 it does not compare ve with v0.
jerk_calc_trajectory_dv_untested(s) ==
    LET ps == IF hasattr(s, "p0") THEN s.p0 ELSE s.ps
        dp == Sub(s.pe, ps)
        done == JerkLadder(s, ps)
    IN  IF ~s.point_setted
        THEN Raised(s, "calc_trajectory", <<>>, "ValueError",
                    "End point not set. Call set_point() first.", 0)
        ELSE IF ~s.constraints_setted
        THEN Raised(s, "calc_trajectory", <<>>, "ValueError",
                    "Constraints not set. Call set_constraints() first.", 0)
        ELSE IF ~hasattr(s, "p0") /\ ~hasattr(s, "ps")
        THEN Raised(s, "calc_trajectory", <<>>, "AttributeError", "ps", 0)
        ELSE IF dp = Zero
        THEN Returned([s EXCEPT !.case = -1, !.te = Zero, !.t1 = Zero,
                                !.attrs = @ \cup {"case", "te", "t1"},
                                !.trajectory_calced = TRUE],
                      "calc_trajectory", <<>>, Zero, 0)
        ELSE Returned([done EXCEPT !.trajectory_calced = TRUE],
                      "calc_trajectory", <<>>, done.te, 0)

jerk_calc_trajectory(s) ==
    LET ps == IF hasattr(s, "p0") THEN s.p0 ELSE s.ps
        dp == Sub(s.pe, ps)
        done == JerkLadder(s, ps)
    IN  IF ~s.point_setted
        THEN Raised(s, "calc_trajectory", <<>>, "ValueError",
                    "End point not set. Call set_point() first.", 0)
        ELSE IF ~s.constraints_setted
        THEN Raised(s, "calc_trajectory", <<>>, "ValueError",
                    "Constraints not set. Call set_constraints() first.", 0)
        ELSE IF ~hasattr(s, "p0") /\ ~hasattr(s, "ps")
        THEN Raised(s, "calc_trajectory", <<>>, "AttributeError", "ps", 0)
        ELSE IF dp = Zero
        THEN IF hasattr(s, "ve") /\ hasattr(s, "v0") /\ s.ve # s.v0
             THEN Raised(s, "calc_trajectory", <<>>, "ValueError",
                         "Cannot have different velocities at the same position (dp=0, but dv!=0)",
                         0)
             ELSE Returned([s EXCEPT !.case = -1, !.te = Zero, !.t1 = Zero,
                                     !.attrs = @ \cup {"case", "te", "t1"},
                                     !.trajectory_calced = TRUE],
                           "calc_trajectory", <<>>, Zero, 0)
        ELSE Returned([done EXCEPT !.trajectory_calced = TRUE],
                      "calc_trajectory", <<>>, done.te, 0)

\* c3*x^3 + c2*x^2 + c1*x + c0
Poly(c3, c2, c1, c0, x) ==
    Add(Add(Add(Mul(c3, Cube(x)), Mul(c2, Sq(x))), Mul(c1, x)), c0)

M3(x, y, z) == Mul(x, Mul(y, z))

\* One segment's state <<p, v, a, j>> at its local time x, for the motion
\* in the positive direction from 0: jerk j, a = j*x + a0,
\* v = v2*x^2 + v1*x + v0, p = p3*x^3 + p2*x^2 + p1*x + p0.
SegmentState(j, a0, v2, v1, v0, p3, p2, p1, p0, x) ==
    <<Poly(p3, p2, p1, p0, x), Poly(Zero, v2, v1, v0, x),
      Add(Mul(j, x), a0), j>>

\* The first segment from the i-th whose end is after tau, as the chain of
\* elif tests finds it; the last segment when none is.
RECURSIVE SegIndex(_, _, _)
SegIndex(ends, tau, i) ==
    IF i > Len(ends) THEN i
    ELSE IF Lt(tau, ends[i]) THEN i
    ELSE SegIndex(ends, tau, i + 1)

\* The ends of the segments of case 0 but the last, as get_point tests
\* them in turn.
Case0Ends(t1) ==
    <<t1,
      Mul(<<3, 1>>, t1)>>

\* Lines 200-218: segment i of case 0, at the time tau since the start.
Case0Poly(jmax, t1, i, tau) ==
    LET hj == Mul(Half, jmax)
        sj == Mul(<<1, 6>>, jmax)
    IN  IF i = 1
        THEN SegmentState(jmax, Zero, hj, Zero, Zero, sj, Zero, Zero, Zero, tau)
        ELSE IF i = 2
        THEN SegmentState(Neg(jmax), Mul(jmax, t1),
                          Neg(hj), Mul(jmax, t1), Mul(hj, Sq(t1)),
                          Neg(sj), Mul(hj, t1), Mul(hj, Sq(t1)),
                          Mul(sj, Cube(t1)),
                          Sub(tau, t1))
        ELSE SegmentState(jmax, Neg(Mul(jmax, t1)),
                          hj, Neg(Mul(jmax, t1)), Mul(hj, Sq(t1)),
                          sj, Neg(Mul(hj, t1)), Mul(hj, Sq(t1)),
                          M3(<<11, 6>>, jmax, Cube(t1)),
                          Sub(tau, Mul(<<3, 1>>, t1)))

Case0Segment(jmax, t1, tau) ==
    Case0Poly(jmax, t1,
             SegIndex(Case0Ends(t1), tau, 1), tau)

\* The ends of the segments of case 1 but the last, as get_point tests
\* them in turn.
Case1Ends(t1, t2) ==
    <<t1,
      Mul(Two, t1),
      Add(Mul(Two, t1), t2),
      Add(Mul(<<3, 1>>, t1), t2)>>

\* Lines 246-279: segment i of case 1, at the time tau since the start.
Case1Poly(jmax, vmax, t1, t2, i, tau) ==
    LET hj == Mul(Half, jmax)
        sj == Mul(<<1, 6>>, jmax)
        jt3 == Mul(jmax, Cube(t1))
    IN  IF i = 1
        THEN SegmentState(jmax, Zero, hj, Zero, Zero, sj, Zero, Zero, Zero, tau)
        ELSE IF i = 2
        THEN SegmentState(Neg(jmax), Mul(jmax, t1),
                          Neg(hj), Mul(jmax, t1), Mul(hj, Sq(t1)),
                          Neg(sj), Mul(hj, t1), Mul(hj, Sq(t1)),
                          Mul(sj, Cube(t1)),
                          Sub(tau, t1))
        ELSE IF i = 3
        THEN SegmentState(Zero, Zero, Zero, Zero, vmax,
                          Zero, Zero, vmax, jt3,
                          Sub(tau, Mul(Two, t1)))
        ELSE IF i = 4
        THEN SegmentState(Neg(jmax), Zero, Neg(hj), Zero, vmax,
                          Neg(sj), Zero, vmax, Add(Mul(vmax, t2), jt3),
                          Sub(Sub(tau, Mul(Two, t1)), t2))
        ELSE SegmentState(jmax, Neg(Mul(jmax, t1)),
                          hj, Neg(Mul(jmax, t1)),
                          Add(Neg(Mul(hj, Sq(t1))), vmax),
                          sj, Neg(Mul(hj, t1)), Mul(hj, Sq(t1)),
                          Add(Add(Mul(vmax, t2), Mul(vmax, t1)),
                              M3(<<5, 6>>, jmax, Cube(t1))),
                          Sub(Sub(tau, Mul(<<3, 1>>, t1)), t2))

Case1Segment(jmax, vmax, t1, t2, tau) ==
    Case1Poly(jmax, vmax, t1, t2,
             SegIndex(Case1Ends(t1, t2), tau, 1), tau)

\* The ends of the segments of case 2 but the last, as get_point tests
\* them in turn.
Case2Ends(t1, t2) ==
    <<t1,
      Add(t1, t2),
      Add(Mul(<<3, 1>>, t1), t2),
      Add(Mul(<<3, 1>>, t1), Mul(Two, t2))>>

\* Lines 307-343: segment i of case 2, at the time tau since the start.
Case2Poly(jmax, amax, t1, t2, i, tau) ==
    LET hj == Mul(Half, jmax)
        sj == Mul(<<1, 6>>, jmax)
        ha == Mul(Half, amax)
        a2j == Div(Sq(amax), jmax)
        a3j2 == Div(Cube(amax), Sq(jmax))
        three == <<3, 1>>
    IN  IF i = 1
        THEN SegmentState(jmax, Zero, hj, Zero, Zero, sj, Zero, Zero, Zero, tau)
        ELSE IF i = 2
        THEN SegmentState(Zero, amax, Zero, amax, Mul(Half, a2j),
                          Zero, ha, Mul(Half, a2j), Mul(<<1, 6>>, a3j2),
                          Sub(tau, t1))
        ELSE IF i = 3
        THEN SegmentState(Neg(jmax), amax,
                          Neg(hj), amax, Add(Mul(amax, t2), Mul(Half, a2j)),
                          Neg(sj), ha, Add(Mul(amax, t2), Mul(Half, a2j)),
                          Add(Add(Mul(ha, Sq(t2)), M3(Half, a2j, t2)),
                              Mul(<<1, 6>>, a3j2)),
                          Sub(Sub(tau, t1), t2))
        ELSE IF i = 4
        THEN SegmentState(Zero, Neg(amax),
                          Zero, Neg(amax), Add(Mul(amax, t2), Mul(Half, a2j)),
                          Zero, Neg(ha), Add(Mul(amax, t2), Mul(Half, a2j)),
                          Add(Add(Mul(ha, Sq(t2)), M3(<<5, 2>>, a2j, t2)),
                              Mul(Two, a3j2)),
                          Sub(Sub(tau, Mul(three, t1)), t2))
        ELSE SegmentState(jmax, Neg(amax),
                          hj, Neg(amax), Mul(Half, a2j),
                          sj, Neg(ha), Mul(Half, a2j),
                          Add(Add(Mul(amax, Sq(t2)), M3(three, a2j, t2)),
                              Mul(Two, a3j2)),
                          Sub(Sub(tau, Mul(three, t1)), Mul(Two, t2)))

Case2Segment(jmax, amax, t1, t2, tau) ==
    Case2Poly(jmax, amax, t1, t2,
             SegIndex(Case2Ends(t1, t2), tau, 1), tau)

\* The ends of the segments of case 3 but the last, as get_point tests
\* them in turn.
Case3Ends(t1, t2, t3) ==
    <<t1,
      Add(t1, t2),
      Add(Mul(Two, t1), t2),
      Add(Add(Mul(Two, t1), t2), t3),
      Add(Add(Mul(<<3, 1>>, t1), t2), t3),
      Add(Add(Mul(<<3, 1>>, t1), Mul(Two, t2)), t3)>>

\* Lines 372-422: segment i of case 3, at the time tau since the start.
Case3Poly(jmax, amax, vmax, t1, t2, t3, i, tau) ==
    LET hj == Mul(Half, jmax)
        sj == Mul(<<1, 6>>, jmax)
        ha == Mul(Half, amax)
        a2j == Div(Sq(amax), jmax)
        a3j2 == Div(Cube(amax), Sq(jmax))
        three == <<3, 1>>
    IN  IF i = 1
        THEN SegmentState(jmax, Zero, hj, Zero, Zero, sj, Zero, Zero, Zero, tau)
        ELSE IF i = 2
        THEN SegmentState(Zero, amax, Zero, amax, Mul(Half, a2j),
                          Zero, ha, Mul(Half, a2j), Mul(<<1, 6>>, a3j2),
                          Sub(tau, t1))
        ELSE IF i = 3
        THEN SegmentState(Neg(jmax), amax,
                          Neg(hj), amax, Add(Mul(amax, t2), Mul(Half, a2j)),
                          Neg(sj), ha, Add(Mul(amax, t2), Mul(Half, a2j)),
                          Add(Add(Mul(ha, Sq(t2)), M3(Half, a2j, t2)),
                              Mul(<<1, 6>>, a3j2)),
                          Sub(Sub(tau, t1), t2))
        ELSE IF i = 4
        THEN SegmentState(Zero, Zero, Zero, Zero, vmax,
                          Zero, Zero, vmax,
                          Add(Mul(vmax, t1), M3(Half, vmax, t2)),
                          Sub(Sub(tau, Mul(Two, t1)), t2))
        ELSE IF i = 5
        THEN SegmentState(Neg(jmax), Zero, Neg(hj), Zero, vmax,
                          Neg(sj), Zero, vmax,
                          Mul(vmax, Add(Add(t1, Mul(Half, t2)), t3)),
                          Sub(Sub(Sub(tau, Mul(Two, t1)), t2), t3))
        ELSE IF i = 6
        THEN SegmentState(Zero, Neg(amax),
                          Zero, Neg(amax), Add(Neg(Mul(Half, a2j)), vmax),
                          Zero, Neg(ha), Sub(vmax, Mul(Half, a2j)),
                          Sub(Mul(vmax, Add(Add(Mul(Two, t1), Mul(Half, t2)), t3)),
                              Mul(<<1, 6>>, a3j2)),
                          Sub(Sub(Sub(tau, Mul(three, t1)), t2), t3))
        ELSE SegmentState(jmax, Neg(amax),
                          hj, Neg(amax), Mul(Half, a2j),
                          sj, Neg(ha), Mul(Half, a2j),
                          Sub(Mul(vmax, Add(Add(Mul(Two, t1), t2), t3)),
                              Mul(<<1, 6>>, a3j2)),
                          Sub(Sub(Sub(tau, Mul(three, t1)), Mul(Two, t2)), t3))

Case3Segment(jmax, amax, vmax, t1, t2, t3, tau) ==
    Case3Poly(jmax, amax, vmax, t1, t2, t3,
             SegIndex(Case3Ends(t1, t2, t3), tau, 1), tau)

\* The tau below which get_point evaluates the segments of the case
\* (lines 199, 245, 306, 371).
SegmentsEnd(s) ==
    IF s.case = 0 THEN Mul(<<4, 1>>, s.t1)
    ELSE IF s.case = 1 THEN Add(Mul(<<4, 1>>, s.t1), s.t2)
    ELSE IF s.case = 2 THEN Add(Mul(<<4, 1>>, s.t1), Mul(Two, s.t2))
    ELSE Add(Add(Mul(<<4, 1>>, s.t1), M3(Two, Two, s.t2)), s.t3)

\* The attribute get_point reads first among those that do not exist
\* (lines 165-174, 237, 298, 362-363); "" when it reads none.
JerkMissing(s) ==
    IF ~hasattr(s, "p0") /\ ~hasattr(s, "ps") THEN "ps"
    ELSE IF ~hasattr(s, "t0") THEN "t0"
    ELSE IF ~hasattr(s, "jmax") THEN "jmax"
    ELSE IF ~hasattr(s, "amax") THEN "amax"
    ELSE IF ~hasattr(s, "vmax") THEN "vmax"
    ELSE IF ~hasattr(s, "t1") THEN "t1"
    ELSE IF s.case = -1 THEN ""
    ELSE IF s.case \in {1, 2, 3} /\ ~hasattr(s, "t2") THEN "t2"
    ELSE IF s.case = 3 /\ ~hasattr(s, "t3") THEN "t3"
    ELSE ""

\* A faulty get_point, for testing the no-motion properties: at rest it
\* returns velocity 0 whatever v0.
jerk_get_point_rest_at_zero(s, t) ==
    LET ps == IF hasattr(s, "p0") THEN s.p0 ELSE s.ps
        tau == Sub(t, s.t0)
        j_out == IF Lt(s.pe, ps) THEN Neg(s.jmax) ELSE s.jmax
        seg == IF s.case = 0 THEN Case0Segment(s.jmax, s.t1, tau)
               ELSE IF s.case = 1
               THEN Case1Segment(s.jmax, s.vmax, s.t1, s.t2, tau)
               ELSE IF s.case = 2
               THEN Case2Segment(s.jmax, s.amax, s.t1, s.t2, tau)
               ELSE Case3Segment(s.jmax, s.amax, s.vmax, s.t1, s.t2, s.t3, tau)
        flip == Lt(s.pe, ps)
        p == IF flip THEN Neg(seg[1]) ELSE seg[1]
        v == IF flip THEN Neg(seg[2]) ELSE seg[2]
        a == IF flip THEN Neg(seg[3]) ELSE seg[3]
        j == IF flip THEN Neg(seg[4]) ELSE seg[4]
    IN  IF JerkMissing(s) # ""
        THEN Raised(s, "get_point", <<t>>, "AttributeError", JerkMissing(s), 0)
        ELSE IF s.case = -1
        THEN Returned(s, "get_point", <<t>>,
                      <<ps, Zero, Zero, Zero>>,
                      0)
        ELSE IF Lt(tau, Zero)
        THEN Returned(s, "get_point", <<t>>, <<ps, Zero, Zero, j_out>>, 0)
        ELSE IF Lt(tau, SegmentsEnd(s))
        THEN Returned(s, "get_point", <<t>>, <<Add(p, ps), v, a, j>>, 0)
        ELSE Returned(s, "get_point", <<t>>, <<s.pe, Zero, Zero, j_out>>, 0)

jerk_get_point(s, t) ==
    LET ps == IF hasattr(s, "p0") THEN s.p0 ELSE s.ps
        tau == Sub(t, s.t0)
        j_out == IF Lt(s.pe, ps) THEN Neg(s.jmax) ELSE s.jmax
        seg == IF s.case = 0 THEN Case0Segment(s.jmax, s.t1, tau)
               ELSE IF s.case = 1
               THEN Case1Segment(s.jmax, s.vmax, s.t1, s.t2, tau)
               ELSE IF s.case = 2
               THEN Case2Segment(s.jmax, s.amax, s.t1, s.t2, tau)
               ELSE Case3Segment(s.jmax, s.amax, s.vmax, s.t1, s.t2, s.t3, tau)
        flip == Lt(s.pe, ps)
        p == IF flip THEN Neg(seg[1]) ELSE seg[1]
        v == IF flip THEN Neg(seg[2]) ELSE seg[2]
        a == IF flip THEN Neg(seg[3]) ELSE seg[3]
        j == IF flip THEN Neg(seg[4]) ELSE seg[4]
    IN  IF JerkMissing(s) # ""
        THEN Raised(s, "get_point", <<t>>, "AttributeError", JerkMissing(s), 0)
        ELSE IF s.case = -1
        THEN Returned(s, "get_point", <<t>>,
                      <<ps, IF hasattr(s, "v0") THEN s.v0 ELSE Zero, Zero, Zero>>,
                      0)
        ELSE IF Lt(tau, Zero)
        THEN Returned(s, "get_point", <<t>>, <<ps, Zero, Zero, j_out>>, 0)
        ELSE IF Lt(tau, SegmentsEnd(s))
        THEN Returned(s, "get_point", <<t>>, <<Add(p, ps), v, a, j>>, 0)
        ELSE Returned(s, "get_point", <<t>>, <<s.pe, Zero, Zero, j_out>>, 0)


----------------------------------------------------------------------------
(* The state: one planner instance, and what its caller has seen.          *)

VARIABLES
    cls,     \* the class of the instance: "acc", "jerk" or "angle"
    self,    \* the instance's attributes
    ret,     \* the last call: its name, arguments and outcome
    called   \* the setters, and calc_trajectory, that have returned normally

vars == <<cls, self, ret, called>>

Constructed ==
    [op |-> "__init__", args |-> <<>>, outcome |-> "return", exc |-> "",
     msg |-> "", value |-> None, warnings |-> 0]

\* The call's effect on the instance and on what the caller sees.  The
\* setters in done have returned whatever the call's outcome (init and set
\* call them first); those in last have returned if the call has.
Apply(r, done, last) ==
    /\ self' = r.self
    /\ ret' = r.ret
    /\ called' = called \cup done \cup
                     (IF r.ret.outcome = "return" THEN last ELSE {})
    /\ UNCHANGED cls

----------------------------------------------------------------------------
(* The values the callers of the lifecycle specification pass.             *)

I(n) == <<n, 1>>

LifeT0 == {I(0), I(1)}
LifeP0 == {I(0)}
LifeV0 == {I(-2), I(0), I(1)}
LifePe == {I(0), <<1, 4>>, I(4)}
LifeVe == {I(0)}
\* <<acc_max, vmax, dec_max>>: valid limits, and one non-positive limit in
\* each place.
LifeLimits ==
    {<<I(1), I(1), None>>, <<I(1), I(2), None>>, <<I(1), I(2), I(2)>>,
     <<I(0), I(1), None>>, <<I(1), I(0), None>>, <<I(1), I(1), I(0)>>}
TimeMax == 3
LifeTimes == {I(-1), <<1, 2>>} \cup {I(k) : k \in 0..TimeMax}

----------------------------------------------------------------------------
(* The trapezoidal planner's methods as actions.                           *)

AccSetInitial ==
    /\ cls = "acc"
    /\ \E t0 \in LifeT0, p0 \in LifeP0, v0 \in LifeV0 :
           Apply(set_initial(self, t0, p0, v0), {}, {"set_initial"})

AccSetPoint ==
    /\ cls = "acc"
    /\ \E pe \in LifePe, ve \in LifeVe :
           Apply(set_point(self, pe, ve), {}, {"set_point"})

AccSetConstraints ==
    /\ cls = "acc"
    /\ \E c \in LifeLimits :
           Apply(set_constraints(self, c[1], c[2], c[3]), {},
                 {"set_constraints"})

AccCalcTrajectory ==
    /\ cls = "acc"
    /\ Apply(calc_trajectory(self), {}, {"calc_trajectory"})

AccGetPoint ==
    /\ cls = "acc"
    /\ \E t \in LifeTimes : Apply(get_point(self, t), {}, {})

AccInit ==
    /\ cls = "acc"
    /\ \E t0 \in {I(0)}, p0 \in LifeP0, v0 \in {I(0), I(1)},
          pe \in {I(0), I(4)}, ve \in LifeVe,
          c \in {<<I(1), I(2), None>>, <<I(1), I(0), None>>} :
           Apply(init(self, p0, pe, c[1], c[2], t0, v0, ve, c[3]),
                 {"set_initial", "set_point"}, {"set_constraints"})

AccGetDuration ==
    /\ cls = "acc"
    /\ Apply(get_duration(self), {}, {})

AccGetEndTime ==
    /\ cls = "acc"
    /\ Apply(get_end_time(self), {}, {})

AccNext ==
    \/ AccSetInitial
    \/ AccSetPoint
    \/ AccSetConstraints
    \/ AccInit
    \/ AccCalcTrajectory
    \/ AccGetPoint
    \/ AccGetDuration
    \/ AccGetEndTime

----------------------------------------------------------------------------
(* The jerk-limited planner's methods as actions.                          *)

JerkT0 == {I(0), I(1)}
JerkP0 == {I(0)}
JerkV0 == {I(0), I(1)}
JerkPs == {I(2)}
JerkPe == {I(0), I(18)}
\* <<amax, vmax, jmax>>
JerkLimits == {<<I(2), I(7), I(1)>>, <<I(0), I(1), I(1)>>}
JerkTimes == {I(-1), I(1), I(40)}
\* <<p0, pe, <<amax, vmax, jmax>>>> of the calls of init; the last is the
\* request ps = 5.5, pe = 100, accelMax = 1, velMax = 5, jerkMax = 0.98.
JerkRequests ==
    {<<I(0), I(0), <<I(2), I(1), I(1)>>>>,
     <<I(0), I(18), <<I(2), I(1), I(1)>>>>,
     <<I(0), I(18), <<I(0), I(1), I(1)>>>>,
     <<<<11, 2>>, I(100), <<I(1), I(5), <<49, 50>>>>>>}

JerkSetInitialTime ==
    /\ cls = "jerk"
    /\ \E t \in JerkT0 : Apply(jerk_set_initial_time(self, t), {}, {})

JerkSetInitial ==
    /\ cls = "jerk"
    /\ \E t0 \in JerkT0, p0 \in JerkP0, v0 \in JerkV0 :
           Apply(jerk_set_initial(self, t0, p0, v0), {}, {"set_initial"})

\* set_point(pe) and set_point(ps, pe)
JerkSetPoint ==
    /\ cls = "jerk"
    /\ \E ps \in JerkPs \cup JerkPe, pe \in JerkPe \cup {None} :
           /\ pe = None => ps \in JerkPe
           /\ pe # None => ps \in JerkPs
           /\ Apply(jerk_set_point(self, ps, pe), {}, {"set_point"})

JerkSetConstraints ==
    /\ cls = "jerk"
    /\ \E c \in JerkLimits :
           Apply(jerk_set_constraints(self, c[1], c[2], c[3]), {},
                 {"set_constraints"})

\* [vmax, amax, jmax] of the calls of set: valid, with a non-positive
\* entry, and of the wrong length.
JerkArrays ==
    {<<I(7), I(2), I(1)>>, <<I(1), I(0), I(1)>>, <<I(7), I(2)>>}

JerkSet ==
    /\ cls = "jerk"
    /\ \E ps \in JerkPs, pe \in {I(18)}, max_constraints \in JerkArrays :
           Apply(jerk_set(self, ps, pe, max_constraints),
                 {"set_point"}, {"set_constraints"})

JerkInit ==
    /\ cls = "jerk"
    /\ \E q \in JerkRequests :
           Apply(jerk_init(self, q[1], q[2], q[3][1], q[3][2], q[3][3],
                           I(0), I(0), I(0)),
                 {"set_initial", "set_point"}, {"set_constraints"})

JerkCalcTrajectory ==
    /\ cls = "jerk"
    /\ Apply(jerk_calc_trajectory(self), {}, {"calc_trajectory"})

JerkGetPoint ==
    /\ cls = "jerk"
    /\ \E t \in JerkTimes : Apply(jerk_get_point(self, t), {}, {})

JerkNext ==
    \/ JerkSetInitialTime
    \/ JerkSetInitial
    \/ JerkSetPoint
    \/ JerkSetConstraints
    \/ JerkSet
    \/ JerkInit
    \/ JerkCalcTrajectory
    \/ JerkGetPoint

----------------------------------------------------------------------------
(* The lifecycle of one instance of either class, from its construction.   *)

Init ==
    /\ cls \in {"acc", "jerk"}
    /\ self = IF cls = "acc" THEN AccNew ELSE JerkNew
    /\ ret = Constructed
    /\ called = {}

Next == AccNext \/ JerkNext

Spec == Init /\ [][Next]_vars

----------------------------------------------------------------------------
(* One planning request on a fresh instance, made with init, then planned  *)
(* and sampled: the specification of the planners' numerical behaviour.    *)

PlanT0 == {I(0), I(1)}
PlanAccPe == {I(-4), I(0), <<1, 4>>, <<15, 4>>, I(4), I(8)}
PlanAccV0 == {I(-4), I(-3), I(-2), I(0), I(1), I(2)}
PlanAccVe == {I(0), I(1), I(3)}
PlanAccMax == {I(1), I(2)}
PlanAccVmax == {I(2), I(5)}
PlanAccDec == {None, I(1), I(2)}
PlanJerkP0 == {I(0), <<11, 2>>}
PlanJerkPe == {I(-16), I(0), I(2), <<27, 4>>, I(16), <<94, 3>>, I(100)}
\* <<v0, ve>>; the jerk-limited planner plans from rest to rest, and the
\* nonzero velocities go with the requests that end where they start.
PlanJerkV == {<<I(0), I(0)>>, <<I(1), I(1)>>, <<I(0), I(1)>>}
\* <<amax, vmax, jmax>>
PlanJerkLimits ==
    {<<I(2), I(7), I(1)>>, <<I(2), I(6), I(1)>>, <<I(2), I(1), I(1)>>,
     <<I(3), I(13), I(1)>>}
\* The sampled times: every half up to PlanHalfMax halves, then every unit
\* up to PlanTimeMax.
PlanHalfMax == 5
PlanTimeMax == 24
PlanTimes ==
    {Q(k, 2) : k \in -1..PlanHalfMax} \cup {I(k) : k \in 0..PlanTimeMax}
\* The trapezoidal plans of the grid are shorter: half as far.
PlanAccTimes ==
    {Q(k, 2) : k \in -1..PlanHalfMax} \cup
        {I(k) : k \in 0..(PlanTimeMax \div 2)}

InitPlan ==
    /\ cls \in {"acc", "jerk"}
    /\ \E t0 \in PlanT0 :
           \/ /\ cls = "acc"
              /\ \E pe \in PlanAccPe, v0 \in PlanAccV0, ve \in PlanAccVe,
                    acc_max \in PlanAccMax, vmax \in PlanAccVmax,
                    dec_max \in PlanAccDec :
                     LET r == init(AccNew, I(0), pe, acc_max, vmax, t0, v0,
                                   ve, dec_max)
                     IN  self = r.self /\ ret = r.ret
           \/ /\ cls = "jerk"
              /\ \E p0 \in PlanJerkP0, pe \in PlanJerkPe,
                    c \in PlanJerkLimits, w \in PlanJerkV :
                     LET r == jerk_init(JerkNew, p0, pe, c[1], c[2], c[3],
                                        t0, w[1], w[2])
                     IN  /\ w # <<I(0), I(0)>> => pe = p0
                         /\ self = r.self
                         /\ ret = r.ret
    /\ called = {"set_initial", "set_point", "set_constraints"}

AccTrace ==
    /\ cls = "acc"
    /\ \E t \in PlanAccTimes : Apply(get_point(self, t), {}, {})

JerkTrace ==
    /\ cls = "jerk"
    /\ \E t \in PlanTimes : Apply(jerk_get_point(self, t), {}, {})

NextPlan ==
    \/ AccCalcTrajectory
    \/ AccTrace
    \/ JerkCalcTrajectory
    \/ JerkTrace

SpecPlan == InitPlan /\ [][NextPlan]_vars

----------------------------------------------------------------------------
(* The lifecycle of one TwoAngleInterpolation instance.  Angles are in     *)
(* units of ten degrees, and so are the limits, per second and per second  *)
(* squared: the angles passed are 0, 350 and -190 degrees for p0 and 10    *)
(* and 270 degrees and 2*np.pi for pe.                                     *)

AngleP0 == {I(0), I(35), I(-19)}
AnglePe == {I(1), I(27), Mul(Two, np_pi)}
\* <<acc_max, vmax, dec_max>>
AngleLimits == {<<I(2), I(4), None>>, <<I(2), I(4), I(1)>>}
AngleTimes == {I(-1), I(1), I(40)}

AngleInit ==
    /\ cls = "angle"
    /\ \E p0 \in AngleP0, pe \in AnglePe, c \in AngleLimits :
           Apply(angle_init(self, p0, pe, c[1], c[2], I(0), I(0), I(0), c[3]),
                 {"set_initial", "set_point"}, {"set_constraints"})

AngleSetInitial ==
    /\ cls = "angle"
    /\ \E p0 \in AngleP0 :
           Apply(set_initial(self, I(0), p0, I(0)), {}, {"set_initial"})

AngleSetPoint ==
    /\ cls = "angle"
    /\ \E pe \in AnglePe :
           Apply(set_point(self, pe, I(0)), {}, {"set_point"})

AngleSetConstraints ==
    /\ cls = "angle"
    /\ \E c \in AngleLimits :
           Apply(set_constraints(self, c[1], c[2], c[3]), {},
                 {"set_constraints"})

AngleCalcTrajectory ==
    /\ cls = "angle"
    /\ Apply(calc_trajectory(self), {}, {"calc_trajectory"})

AngleGetPoint ==
    /\ cls = "angle"
    /\ \E t \in AngleTimes, normalize_output \in BOOLEAN :
           Apply(angle_get_point(self, t, normalize_output), {}, {})

InitAngle ==
    /\ cls = "angle"
    /\ self = AccNew
    /\ ret = Constructed
    /\ called = {}

NextAngle ==
    \/ AngleInit
    \/ AngleSetInitial
    \/ AngleSetPoint
    \/ AngleSetConstraints
    \/ AngleCalcTrajectory
    \/ AngleGetPoint

SpecAngle == InitAngle /\ [][NextAngle]_vars

----------------------------------------------------------------------------
(* The diagnostics of the trapezoidal planner: one request made with init  *)
(* on a new instance, on which calc_trajectory is called, and              *)
(* _raise_deceleration_error with the arguments calc_trajectory passes it, *)
(* in either context.  The displacements lie around the deceleration       *)
(* distance 8 of the velocities 5 and 3 at dec_max = 1: short of it by     *)
(* more than 2%, by exactly 2% (400/51) and by less, equal to it, and      *)
(* beyond it by less and by more than 2%.                                  *)

DiagPe ==
    {I(-8), <<15, 2>>, <<400, 51>>, <<79, 10>>, I(8), <<81, 10>>, I(9)}
DiagV0 == {I(-5), I(0), I(5)}
DiagVe == {I(0), I(3)}
DiagVmax == {I(2), I(5)}
DiagContexts == {"discriminant", "no_positive_solution"}

InitDiagnose ==
    /\ cls = "acc"
    /\ \E pe \in DiagPe, v0 \in DiagV0, ve \in DiagVe, vmax \in DiagVmax :
           LET r == init(AccNew, I(0), pe, I(1), vmax, I(0), v0, ve, None)
           IN  self = r.self /\ ret = r.ret
    /\ called = {"set_initial", "set_point", "set_constraints"}

AccRaiseDecelerationError ==
    /\ cls = "acc"
    /\ \E context \in DiagContexts :
           LET q == Quadratic(self)
           IN  Apply(Raised(self, "_raise_deceleration_error",
                            <<self.v0, self.ve, q.dp, q.dec, q.sign, context>>,
                            "ValueError",
                            _raise_deceleration_error(self.v0, self.ve, q.dp,
                                                      q.dec, q.sign, context),
                            0),
                     {}, {})

NextDiagnose ==
    \/ AccCalcTrajectory
    \/ AccRaiseDecelerationError

SpecDiagnose == InitDiagnose /\ [][NextDiagnose]_vars

----------------------------------------------------------------------------
(* What the properties below speak of.                                     *)

\* Lines 103-106 and 165-168 of constant_jerk.py: the start position.
JerkStart(s) == IF hasattr(s, "p0") THEN s.p0 ELSE s.ps

CalcOf(c, s) ==
    IF c = "acc" THEN calc_trajectory(s) ELSE jerk_calc_trajectory(s)

GetPointOf(c, s, t) ==
    IF c = "acc" THEN get_point(s, t) ELSE jerk_get_point(s, t)

\* The plan calc_trajectory leaves on the instance.
PlanOf(c, s) ==
    IF c = "acc"
    THEN <<s.case, s.dt, s.a, s.v, s.p, s.trajectory_calced>>
    ELSE <<s.case, s.t1, s.t2, s.t3, s.te,
           s.attrs \cap {"case", "t1", "t2", "t3", "te"},
           s.trajectory_calced>>

\* The plan on the instance is the one calc_trajectory computes from the
\* instance's inputs.
PlanCurrent(c, s) ==
    /\ s.trajectory_calced
    /\ CalcOf(c, s).ret.outcome = "return"
    /\ PlanOf(c, CalcOf(c, s).self) = PlanOf(c, s)

SampleTimes(c) == IF c = "acc" THEN LifeTimes ELSE JerkTimes

\* The trapezoidal plan's square root is a rational number: the model
\* computes the plan without rounding.
AccExact(s) ==
    /\ Sub(s.pe, s.p0) # Zero
    /\ ExactRoot(Quadratic(s).discriminant, 2)

\* The same for the root the jerk-limited plan's case takes.
JerkExact(s) ==
    LET adp == fabs(Sub(s.pe, JerkStart(s)))
        t1_a == Div(s.amax, s.jmax)
    IN  IF s.case = 0 THEN ExactRoot(Div(Div(adp, Two), s.jmax), 3)
        ELSE IF s.case = 1 THEN ExactRoot(Div(s.vmax, s.jmax), 2)
        ELSE IF s.case = 2
        THEN ExactRoot(Add(Div(Mul(<<4, 1>>, adp), s.amax),
                           Mul(<<1, 3>>, Sq(t1_a))), 2)
        ELSE s.case = 3

JerkEnds(s) ==
    IF s.case = 0 THEN Case0Ends(s.t1)
    ELSE IF s.case = 1 THEN Case1Ends(s.t1, s.t2)
    ELSE IF s.case = 2 THEN Case2Ends(s.t1, s.t2)
    ELSE Case3Ends(s.t1, s.t2, s.t3)

JerkPoly(s, i, tau) ==
    IF s.case = 0 THEN Case0Poly(s.jmax, s.t1, i, tau)
    ELSE IF s.case = 1 THEN Case1Poly(s.jmax, s.vmax, s.t1, s.t2, i, tau)
    ELSE IF s.case = 2 THEN Case2Poly(s.jmax, s.amax, s.t1, s.t2, i, tau)
    ELSE Case3Poly(s.jmax, s.amax, s.vmax, s.t1, s.t2, s.t3, i, tau)

\* The call has just returned from calc_trajectory with a plan.
Planned(c) ==
    /\ cls = c
    /\ ret.op = "calc_trajectory"
    /\ ret.outcome = "return"

\* The call has just returned from get_point on a computed jerk plan with
\* motion.
JerkSampled ==
    /\ cls = "jerk"
    /\ ret.op = "get_point"
    /\ ret.outcome = "return"
    /\ self.trajectory_calced
    /\ self.case \in 0..3

\* The errors calc_trajectory raises for a setter that has not been called.
NotInitialized(r) ==
    /\ r.outcome = "raise"
    /\ r.exc = "ValueError"
    /\ r.msg \in {"End point not set. Call set_point() first.",
                  "Constraints not set. Call set_constraints() first.",
                  "Initial state not set. Call set_initial() first."}

AllSetters == {"set_initial", "set_point", "set_constraints"}

\* The setters whose flags calc_trajectory tests: constant_acc.py lines
\* 217-222, constant_jerk.py lines 97-100.
RequiredSetters(c) ==
    IF c = "acc" THEN AllSetters ELSE {"set_point", "set_constraints"}

----------------------------------------------------------------------------
(* The properties.                                                         *)

\* C1: whenever the trapezoidal calc_trajectory returns a plan with motion
\* (case 0 or 1), integrating the last phase from its entry state
\* (p[-1], v[-1]) with a[-1] over dt[-1] gives exactly (pe, ve), for every
\* sign of v0 and ve.  Stated for the plans the model computes exactly.
C1_FinalPhaseReachesTarget ==
    (Planned("acc") /\ self.case \in {0, 1} /\ AccExact(self)) =>
        LET n == Len(self.dt)
        IN  /\ p_integ(self.p[n], self.v[n], self.a[n], self.dt[n]) = self.pe
            /\ v_integ(self.v[n], self.a[n], self.dt[n]) = self.ve

\* C2: in every case 0-3 of the jerk-limited planner and at every internal
\* segment boundary, the next segment's position, velocity and acceleration
\* at its start equal the previous segment's at its end, for the
\* non-negative t1, t2, t3 of a plan computed exactly.
C2_SegmentsContinuous ==
    (/\ Planned("jerk")
     /\ self.case \in 0..3
     /\ JerkExact(self)
     /\ Ge(self.t2, Zero)
     /\ Ge(self.t3, Zero)) =>
        \A i \in 1..Len(JerkEnds(self)) :
            LET b == JerkEnds(self)[i]
                before == JerkPoly(self, i, b)
                after == JerkPoly(self, i + 1, b)
            IN  /\ after[1] = before[1]
                /\ after[2] = before[2]
                /\ after[3] = before[3]

\* C3: for every case 0-3 of the jerk-limited planner, get_point at a time
\* before t0 returns the start state and at a time at or after t0 plus the
\* duration calc_trajectory returned returns the end state, each with
\* acceleration 0 and jerk 0.
C3_OutsideWindowBoundaryState ==
    JerkSampled =>
        LET tau == Sub(ret.args[1], self.t0)
        IN  /\ Lt(tau, Zero) =>
                   ret.value = <<JerkStart(self), self.v0, Zero, Zero>>
            /\ Ge(tau, self.te) =>
                   ret.value = <<self.pe, self.ve, Zero, Zero>>

\* C4: whenever calc_trajectory raises on an instance that has a plan, the
\* plan (case and phase lists, and the calculated flag) is as it was before
\* the call.
C4_ComputeAtomic ==
    [][(/\ ret'.op = "calc_trajectory"
        /\ ret'.outcome = "raise"
        /\ self.trajectory_calced) =>
           PlanOf(cls, self') = PlanOf(cls, self)]_vars

\* C5 as stated: for both planners calc_trajectory fails with a
\* NotInitialized error exactly when set_initial, set_point and
\* set_constraints have not all been called on the instance.
C5_AllSettersRequired ==
    ret.op = "calc_trajectory" =>
        (NotInitialized(ret) <=> ~(AllSetters \subseteq called))

\* C5, as the code has it: calc_trajectory fails with a NotInitialized
\* error exactly when a setter it requires has not returned on the
\* instance; the trapezoidal planner requires set_initial, set_point and
\* set_constraints, the jerk-limited planner set_point and set_constraints
\* only.
C5_RequiredSettersCalled ==
    ret.op = "calc_trajectory" =>
        (NotInitialized(ret) <=> ~(RequiredSetters(cls) \subseteq called))

\* The jerk-limited planner has planned without set_initial.
C5_JerkPlannedWithoutSetInitial ==
    /\ Planned("jerk")
    /\ "set_initial" \notin called
    /\ self.case \in 0..3

\* C6: get_point on an instance on which calc_trajectory has never
\* succeeded raises, for both planners, whatever setters were called and
\* whatever the time.
C6_GetPointBeforeCalcRaises ==
    (ret.op = "get_point" /\ ~self.trajectory_calced) =>
        ret.outcome = "raise"

\* C7: when set_initial or set_point returns on an instance whose plan was
\* computed from its inputs, and the new inputs have a plan, every
\* get_point afterwards returns what it returns on the plan of the new
\* inputs.
C7_MutationRecomputes ==
    [][(/\ ret'.op \in {"set_initial", "set_point"}
        /\ ret'.outcome = "return"
        /\ PlanCurrent(cls, self)
        /\ CalcOf(cls, self').ret.outcome = "return") =>
           \A t \in SampleTimes(cls) :
               GetPointOf(cls, self', t).ret =
                   GetPointOf(cls, CalcOf(cls, self').self, t).ret]_vars

\* C8: when set_point(ps, pe) or set(ps, pe, limits) returns on a
\* jerk-limited instance, the plan calc_trajectory then computes starts at
\* that ps: get_point before the start time returns position ps.
C8_LatestStartPositionUsed ==
    [][(/\ cls = "jerk"
        /\ ret'.op \in {"set_point", "set"}
        /\ ret'.outcome = "return"
        /\ ret'.args[2] # None
        /\ hasattr(self', "t0")
        /\ jerk_calc_trajectory(self').ret.outcome = "return") =>
           LET planned == jerk_calc_trajectory(self').self
               before == jerk_get_point(planned, Sub(planned.t0, One)).ret
           IN  /\ before.outcome = "return"
               /\ before.value[1] = ret'.args[1]]_vars

\* C9: at every time of a jerk-limited plan get_point returns a jerk, an
\* acceleration and a velocity within jmax, amax and vmax, whichever case
\* the ladder selected.  Stated for the plans the model computes exactly.
C9_JerkLimitsRespected ==
    (/\ JerkSampled
     /\ JerkExact(self)
     /\ Ge(Sub(ret.args[1], self.t0), Zero)
     /\ Le(Sub(ret.args[1], self.t0), self.te)) =>
        /\ Le(fabs(ret.value[4]), self.jmax)
        /\ Le(fabs(ret.value[3]), self.amax)
        /\ Le(fabs(ret.value[2]), self.vmax)

\* C10: a trapezoidal plan computed without an overspeed warning, from
\* boundary velocities within vmax, keeps |v| <= vmax throughout (the
\* velocity is linear in each phase, so at each phase's start and end), and
\* each phase's acceleration has magnitude acc_max, dec_max or 0.  Stated
\* for the plans the model computes exactly.
C10_TrapezoidWithinLimits ==
    (/\ Planned("acc")
     /\ self.case \in {0, 1}
     /\ AccExact(self)
     /\ ret.warnings = 0
     /\ Le(fabs(self.v0), self.vmax)
     /\ Le(fabs(self.ve), self.vmax)) =>
        \A i \in 1..Len(self.dt) :
            /\ Le(fabs(self.v[i]), self.vmax)
            /\ Le(fabs(v_integ(self.v[i], self.a[i], self.dt[i])), self.vmax)
            /\ fabs(self.a[i]) \in {self.amax_accel, self.amax_decel, Zero}

\* C11: the trapezoidal calc_trajectory issues exactly one overspeed
\* warning when it returns a plan for an initial velocity that exceeds vmax,
\* and none in any other call: none when it returns a plan for an initial
\* velocity within vmax, and none when it raises.
C11_OverspeedAdvisory ==
    (cls = "acc" /\ ret.op = "calc_trajectory") =>
        /\ ret.outcome = "raise" => ret.warnings = 0
        /\ ret.outcome = "return" =>
               ret.warnings = IF Gt(fabs(self.v0), self.vmax) THEN 1 ELSE 0

\* The limits stored on the instance.
LimitsOf(c, s) ==
    IF c = "acc" THEN <<s.amax_accel, s.vmax, s.amax_decel>>
    ELSE <<s.amax, s.vmax, s.jmax, s.attrs \cap {"amax", "vmax", "jmax"}>>

\* The limits a call of set_constraints, set or init passes to
\* set_constraints; for the jerk-limited planner's array form, the array.
LimitsPassed(c, r) ==
    IF c = "acc"
    THEN IF r.op = "init" THEN <<r.args[3], r.args[4], r.args[8]>>
         ELSE r.args
    ELSE IF r.op = "init" THEN <<r.args[3], r.args[4], r.args[5]>>
         ELSE IF r.op = "set" THEN r.args[3]
         ELSE r.args

\* The limits passed are not three positive numbers (the trapezoidal
\* dec_max may be left out).
InvalidLimits(c, r) ==
    LET l == LimitsPassed(c, r)
    IN  \/ Len(l) # 3
        \/ \E i \in 1..Len(l) :
               IF l[i] = None THEN ~(c = "acc" /\ i = 3) ELSE Le(l[i], Zero)

\* C12: a call of set_constraints (directly, or through init or set) with a
\* limit <= 0 or an array of the wrong length raises ValueError and leaves
\* the stored limits and the constraints flag as they were; and whenever
\* calc_trajectory gets past its flag tests the stored limits are positive.
C12_InvalidLimitsRejected ==
    [][/\ (/\ ret'.op \in {"set_constraints", "set", "init"}
           /\ InvalidLimits(cls, ret')) =>
              /\ ret'.outcome = "raise"
              /\ ret'.exc = "ValueError"
              /\ LimitsOf(cls, self') = LimitsOf(cls, self)
              /\ self'.constraints_setted = self.constraints_setted
       /\ (ret'.op = "calc_trajectory" /\ ~NotInitialized(ret')) =>
              \A i \in 1..3 : Gt(LimitsOf(cls, self')[i], Zero)]_vars

\* set_constraints has rejected a limit on an instance that holds the
\* limits of an earlier call.
C12_RejectedKeepsLimits ==
    /\ ret.op = "set_constraints"
    /\ ret.outcome = "raise"
    /\ self.constraints_setted

\* The request on the instance is for no motion: the end state equals the
\* start state (for the jerk-limited planner, the attributes exist).
NoMotionRequest(c, s) ==
    /\ c = "jerk" => {"p0", "v0", "pe", "ve"} \subseteq s.attrs
    /\ s.pe = s.p0
    /\ s.ve = s.v0

\* The state get_point returns at rest at the start.
RestState(c, s) ==
    IF c = "acc" THEN <<s.p0, s.v0, Zero>> ELSE <<s.p0, s.v0, Zero, Zero>>

\* C13: for a request with pe = p0 and ve = v0, calc_trajectory returns 0
\* with case -1, and on that plan get_point returns (p0, v0, 0), for the
\* jerk-limited planner (p0, v0, 0, 0), at every time, before, at and
\* after t0.
C13_NoMotionPlan ==
    NoMotionRequest(cls, self) =>
        /\ ret.op = "calc_trajectory" =>
               /\ ret.outcome = "return"
               /\ ret.value = Zero
               /\ self.case = -1
               /\ self.trajectory_calced
        /\ (ret.op = "get_point" /\ self.trajectory_calced) =>
               /\ ret.outcome = "return"
               /\ ret.value = RestState(cls, self)

\* get_point has returned on a no-motion plan with a nonzero velocity, at
\* a time after t0.
C13_SampledAtRest ==
    /\ NoMotionRequest(cls, self)
    /\ self.v0 # Zero
    /\ self.case = -1
    /\ self.trajectory_calced
    /\ ret.op = "get_point"
    /\ Gt(ret.args[1], self.t0)

\* The request on the instance ends where it starts with another velocity
\* (for the jerk-limited planner, the attributes exist).
BoundaryMismatch(c, s) ==
    /\ c = "jerk" => {"p0", "v0", "pe", "ve"} \subseteq s.attrs
    /\ s.pe = s.p0
    /\ s.ve # s.v0

\* The error calc_trajectory raises for dp == 0 with dv != 0:
\* constant_acc.py lines 245-247, constant_jerk.py lines 112-113.
InvalidBoundaryCondition(r) ==
    /\ r.outcome = "raise"
    /\ r.exc = "ValueError"
    /\ r.msg \in
           {"Changing velocity at the same position (dp=0, dv!=0) is not supported.",
            "Cannot have different velocities at the same position (dp=0, but dv!=0)"}

\* C14: for both planners, when calc_trajectory gets past its flag tests
\* on a request with pe = p0 and ve # v0 it raises the
\* InvalidBoundaryCondition error and leaves the plan on the instance (the
\* case, the phases and the calculated flag) as it was, whatever the limits.
C14_VelocityChangeInPlaceRejected ==
    [][(/\ ret'.op = "calc_trajectory"
        /\ ~NotInitialized(ret')
        /\ BoundaryMismatch(cls, self)) =>
           /\ InvalidBoundaryCondition(ret')
           /\ PlanOf(cls, self') = PlanOf(cls, self)]_vars

\* The jerk-limited calc_trajectory has rejected such a request on an
\* instance that had a plan.
C14_RejectedInPlace ==
    /\ cls = "jerk"
    /\ ret.op = "calc_trajectory"
    /\ InvalidBoundaryCondition(ret)
    /\ self.trajectory_calced

\* The call has just returned from get_point on a computed trapezoidal
\* plan.
AccSampled ==
    /\ cls = "acc"
    /\ ret.op = "get_point"
    /\ ret.outcome = "return"
    /\ self.trajectory_calced

\* C15: on a computed trapezoidal plan get_point returns exactly
\* (p0, v0, 0) at every time before t0 and exactly (pe, ve, 0) at every
\* time at or after t0 plus the total duration sum(dt).
C15_TrapezoidOutsideWindow ==
    AccSampled =>
        LET tau == Sub(ret.args[1], self.t0)
        IN  /\ Lt(tau, Zero) => ret.value = <<self.p0, self.v0, Zero>>
            /\ Ge(tau, Sum(self.dt)) => ret.value = <<self.pe, self.ve, Zero>>

\* get_point has returned at a time after the end of a plan with a cruise
\* phase and a nonzero final velocity.
C15_SampledAfterEnd ==
    /\ AccSampled
    /\ self.case = 1
    /\ self.ve # Zero
    /\ Gt(Sub(ret.args[1], self.t0), Sum(self.dt))

\* C16: on every computed trapezoidal plan with motion and at every
\* internal phase boundary, at cumulative time T = dt[1] + ... + dt[i],
\* get_point(t0 + T) returns the position and velocity recorded as the
\* entry state of the phase that starts at T, and, when T is before the
\* end of the plan, looks the time up in a phase that ends at T, not the
\* one that starts there, and returns that phase's acceleration; phases of
\* duration 0 included.
C16_PhaseBoundariesContinuous ==
    (Planned("acc") /\ self.case \in {0, 1}) =>
        \A i \in 1..(Len(self.dt) - 1) :
            LET T == SumBefore(self.dt, i)
                r == get_point(self, Add(self.t0, T)).ret
                k == FindPhase(self.dt, T, 1)
            IN  /\ r.outcome = "return"
                /\ r.value[1] = self.p[i + 1]
                /\ r.value[2] = self.v[i + 1]
                /\ Lt(T, Sum(self.dt)) =>
                       /\ k \in 1..i
                       /\ SumBefore(self.dt, k) = T
                       /\ r.value[3] = self.a[k]

\* calc_trajectory has returned a plan with a first phase of duration 0 and
\* a cruise phase of positive duration: the boundaries at T = 0 and after
\* the cruise are both looked up.
C16_ZeroDurationPhase ==
    /\ Planned("acc")
    /\ self.case = 1
    /\ self.dt[1] = Zero
    /\ Gt(self.dt[2], Zero)
    /\ Gt(self.dt[3], Zero)

\* The error get_duration and get_end_time raise before a plan exists.
NotCalculated(r) ==
    /\ r.outcome = "raise"
    /\ r.exc = "RuntimeError"
    /\ r.msg = "Trajectory not calculated"

\* C17: get_duration() and get_end_time() called on a trapezoidal instance
\* on which calc_trajectory has not returned raise RuntimeError
\* 'Trajectory not calculated', whatever setters have been called.
C17_GettersBeforeCalcRaise ==
    (/\ cls = "acc"
     /\ ret.op \in {"get_duration", "get_end_time"}
     /\ "calc_trajectory" \notin called) =>
        NotCalculated(ret)

\* get_end_time has been called after all three setters and before
\* calc_trajectory.
C17_GetterAfterSetters ==
    /\ cls = "acc"
    /\ ret.op = "get_end_time"
    /\ AllSetters \subseteq called
    /\ "calc_trajectory" \notin called

\* The trapezoidal plan of the request on s, made on a fresh instance with
\* init and the given dec_max: what calc_trajectory does.
PlanWithDec(s, dec_max) ==
    calc_trajectory(init(AccNew, s.p0, s.pe, s.amax_accel, s.vmax, s.t0,
                         s.v0, s.ve, dec_max).self)

\* C18: for every trapezoidal request, calc_trajectory with dec_max left
\* unspecified and with dec_max = acc_max have the same outcome, return the
\* same duration and leave the same plan (case and phases), and get_point
\* returns the same at every time.
C18_SymmetricDefault ==
    (/\ cls = "acc"
     /\ ret.op = "calc_trajectory"
     /\ self.amax_decel = self.amax_accel) =>
        LET d == PlanWithDec(self, None)
            e == PlanWithDec(self, self.amax_accel)
        IN  /\ d.ret = ret
            /\ e.ret = ret
            /\ PlanOf("acc", d.self) = PlanOf("acc", self)
            /\ PlanOf("acc", e.self) = PlanOf("acc", self)
            /\ \A t \in PlanAccTimes :
                   get_point(d.self, t).ret = get_point(e.self, t).ret

\* calc_trajectory has returned a plan with motion for equal acceleration
\* and deceleration limits that differ from vmax.
C18_SymmetricPlanned ==
    /\ Planned("acc")
    /\ self.case \in {0, 1}
    /\ self.amax_decel = self.amax_accel
    /\ self.vmax # self.amax_accel

\* C19: for every trapezoidal request that computes, and every larger
\* deceleration limit with which it also computes, the total duration with
\* the larger limit is not greater.  Stated for the plans the model
\* computes exactly.
C19_DurationMonotonicInDec ==
    (Planned("acc") /\ AccExact(self)) =>
        \A d \in PlanAccDec \ {None} :
            LET e == PlanWithDec(self, d)
            IN  (/\ Gt(d, self.amax_decel)
                 /\ e.ret.outcome = "return"
                 /\ AccExact(e.self)) =>
                    Le(e.ret.value, ret.value)

\* C20: whenever calc_trajectory returns on a TwoAngleInterpolation
\* instance, however the two angles were supplied, the plan starts at
\* normalize(p0) and ends at normalize(p0) + D with D = normalize(pe - p0),
\* of magnitude at most pi: get_point without output normalization returns
\* these positions at t0 and at t0 plus the duration.
C20_ShortestArc ==
    Planned("angle") =>
        LET start == normalize_angle(self.p0)
            D == normalize_angle(Sub(self.pe, self.p0))
            first == angle_get_point(self, self.t0, FALSE).ret
            last == angle_get_point(self, Add(self.t0, ret.value), FALSE).ret
        IN  /\ Le(fabs(D), Pi)
            /\ first.value[1] = start
            /\ last.value[1] = Add(start, D)


\* C21: whenever the angular get_point returns, at whatever time, its
\* velocity and acceleration are those of the call without output
\* normalization, whatever the flag; with the flag set its position is
\* normalize_angle of the position of the call without it and lies in
\* [-pi, pi], and without the flag it is that position itself.
C21_OnlyPositionWrapped ==
    (cls = "angle" /\ ret.op = "get_point" /\ ret.outcome = "return") =>
        LET t == ret.args[1]
            wrapped == angle_get_point(self, t, TRUE).ret.value
            raw == angle_get_point(self, t, FALSE).ret.value
        IN  /\ raw = get_point(self, t).ret.value
            /\ wrapped[2] = raw[2]
            /\ wrapped[3] = raw[3]
            /\ wrapped[1] = normalize_angle(raw[1])
            /\ Le(Neg(Pi), wrapped[1])
            /\ Le(wrapped[1], Pi)
            /\ ret.value = IF ret.args[2] THEN wrapped ELSE raw

\* get_point has returned with output normalization, inside the window of
\* a computed plan, a position that differs from the one it returns
\* without, at a nonzero velocity.
C21_WrappedWhileMoving ==
    /\ cls = "angle"
    /\ ret.op = "get_point"
    /\ ret.outcome = "return"
    /\ ret.args[2]
    /\ self.trajectory_calced
    /\ Gt(fabs(get_point(self, ret.args[1]).ret.value[1]), Pi)
    /\ ret.value[2] # Zero
    /\ ret.value[3] # Zero


\* The angles passed to init differ by a whole number of turns, as the
\* caller computes a turn: 2*np.pi.
WholeTurnsApart(p0, pe) ==
    \E k \in 1..2 : fabs(Sub(pe, p0)) = Mul(I(k), Mul(Two, np_pi))

\* C22: when calc_trajectory is called on a TwoAngleInterpolation instance
\* right after an init whose two angles differ by a whole number of turns
\* (both velocities being equal), it returns 0 and leaves case -1, the plan
\* of no motion.
C22_FullTurnIsNoMotion ==
    [][(/\ cls = "angle"
        /\ ret.op = "init"
        /\ ret.outcome = "return"
        /\ WholeTurnsApart(ret.args[1], ret.args[2])
        /\ ret.args[6] = ret.args[7]
        /\ ret'.op = "calc_trajectory") =>
           /\ ret'.outcome = "return"
           /\ ret'.value = Zero
           /\ self'.case = -1]_vars


\* A new instance given the inputs held by s, with init, and planned.
FreshPlan(c, s) ==
    IF c = "acc"
    THEN calc_trajectory(init(AccNew, s.p0, s.pe, s.amax_accel, s.vmax, s.t0,
                              s.v0, s.ve, s.amax_decel).self)
    ELSE jerk_calc_trajectory(jerk_init(JerkNew, s.p0, s.pe, s.amax, s.vmax,
                                        s.jmax, s.t0, s.v0, s.ve).self)

\* The inputs FreshPlan reads exist on the instance.
HasInputs(c, s) ==
    c = "jerk" =>
        {"p0", "pe", "amax", "vmax", "jmax", "t0", "v0", "ve"} \subseteq s.attrs

\* C23: a call of get_point, whenever made and whatever its outcome, leaves
\* every attribute of the instance (inputs, flags, case, phase lists) as it
\* was; and whenever calc_trajectory returns a plan, the duration returned
\* and the value of get_point at every sampled time are those of a new
\* instance given the same inputs, whatever calls the instance has seen.
C23_EvaluationReadOnly ==
    /\ [][ret'.op = "get_point" => self' = self]_vars
    /\ []((/\ ret.op = "calc_trajectory"
            /\ ret.outcome = "return"
            /\ HasInputs(cls, self)) =>
              LET fresh == FreshPlan(cls, self)
              IN  /\ fresh.ret = ret
                  /\ \A t \in SampleTimes(cls) :
                         GetPointOf(cls, fresh.self, t).ret =
                             GetPointOf(cls, self, t).ret)

\* get_point has returned inside the window of a computed trapezoidal plan
\* of an instance whose inputs were set after its construction by the
\* setters.
C23_SampledInsidePlan ==
    /\ AccSampled
    /\ self.case \in {0, 1}
    /\ self.t0 = One
    /\ ret.args[1] = Two
    /\ ret.value[3] # Zero


\* C24: every trapezoidal plan with motion computed from boundary
\* velocities within vmax, in case 0 or 1 and toward either side, has a
\* total duration that is positive and at least |pe - p0| / vmax.
C24_DurationLowerBound ==
    (/\ Planned("acc")
     /\ self.case \in {0, 1}
     /\ Le(fabs(self.v0), self.vmax)
     /\ Le(fabs(self.ve), self.vmax)) =>
        /\ Gt(ret.value, Zero)
        /\ Ge(ret.value, Div(fabs(Sub(self.pe, self.p0)), self.vmax))

\* calc_trajectory has returned a plan that cruises at vmax from a start at
\* vmax, toward the target: the plan is short of the bound by no more than
\* its deceleration.
C24_CruiseFromCap ==
    /\ Planned("acc")
    /\ self.case = 1
    /\ self.v0 = self.vmax
    /\ Gt(self.pe, self.p0)
    /\ Gt(self.dt[2], Zero)
    /\ Lt(Sub(ret.value, self.dt[3]),
          Div(fabs(Sub(self.pe, self.p0)), self.vmax))


\* The other root of the quadratic, t1 being one: the two sum to
\* -b_coeff/a_coeff.
OtherRoot(q, t1) == Sub(Neg(Div(q.b_coeff, q.a_coeff)), t1)

\* C25: whenever the trapezoidal calc_trajectory returns a plan with
\* motion, the acceleration time t1 it selected is a strictly positive root
\* of a_coeff*t1^2 + b_coeff*t1 + c_coeff = 0 with
\* a_coeff = 0.5*acc*(1 + ratio), b_coeff = v0*(1 + ratio) and
\* c_coeff = -(pe - p0) + (v0^2 - ve^2)/(2*dec); the other root is either
\* not positive or not smaller; and in case 0 t1 is the duration of the
\* first phase.  Stated for the plans the model computes exactly.
C25_RootSelection ==
    (Planned("acc") /\ self.case \in {0, 1} /\ AccExact(self)) =>
        LET q == Quadratic(self)
            t1 == SelectRoot(q)
            other == OtherRoot(q, t1)
        IN  /\ t1 # None
            /\ Gt(t1, Zero)
            /\ Add(Add(Mul(q.a_coeff, Sq(t1)), Mul(q.b_coeff, t1)),
                   q.c_coeff) = Zero
            /\ Gt(other, Zero) => Le(t1, other)
            /\ self.case = 0 => self.dt[1] = t1

\* calc_trajectory has returned a plan for a quadratic with two distinct
\* positive roots.
C25_BothRootsPositive ==
    /\ Planned("acc")
    /\ self.case = 0
    /\ AccExact(self)
    /\ Gt(OtherRoot(Quadratic(self), self.dt[1]), self.dt[1])


\* decel_distance of _raise_deceleration_error for the request on s: the
\* distance needed to change the speed from v0 to ve at dec_max.
DecelDistance(s) ==
    Div(Sub(Sq(s.v0), Sq(s.ve)), Mul(Two, s.amax_decel))

\* is_moving_toward_target: sign * v0 > 0.
MovingTowardTarget(s) == Gt(Mul(Quadratic(s).sign, s.v0), Zero)

\* calc_trajectory has raised because the quadratic has no positive root.
RootSelectionFailure(r) ==
    /\ r.op = "calc_trajectory"
    /\ r.outcome = "raise"
    /\ r.exc = "ValueError"
    /\ r.msg \in
           {"Insufficient distance for trajectory planning: nearly equal to available distance",
            "Insufficient distance to decelerate",
            "No positive time solution found for trajectory"}

\* The error raised is one of _raise_deceleration_error in the context of a
\* discriminant that is not positive.
DiscriminantFailure(r) ==
    /\ r.outcome = "raise"
    /\ r.msg \in
           {"No valid trajectory found: nearly equal to available distance",
            "No valid trajectory found (discriminant <= 0)"}

\* The diagnostics of _raise_deceleration_error: lines 151-166, the
\* deceleration distance is nearly the available distance; lines 168-179,
\* it exceeds it; lines 180-195, the general case.
NearExhaustion(r) ==
    /\ r.outcome = "raise"
    /\ r.msg \in
           {"No valid trajectory found: nearly equal to available distance",
            "Insufficient distance for trajectory planning: nearly equal to available distance"}

InsufficientDistance(r) ==
    /\ r.outcome = "raise"
    /\ r.msg = "Insufficient distance to decelerate"

GeneralDiagnostic(r) ==
    /\ r.outcome = "raise"
    /\ r.msg \in
           {"No valid trajectory found (discriminant <= 0)",
            "No positive time solution found for trajectory"}

\* C26: whenever the trapezoidal calc_trajectory is called on a request
\* with pe # p0 and positive limits, the discriminant of the quadratic is
\* strictly positive, and the call fails for want of a positive root
\* exactly when v0 points toward the target and the deceleration distance
\* (v0^2 - ve^2)/(2*dec_max) is at least |pe - p0|; it never raises the
\* discriminant error nor a general diagnostic.  Stated for the requests
\* whose square root the model computes exactly.
C26_RootFailureCharacterised ==
    (/\ cls = "acc"
     /\ ret.op = "calc_trajectory"
     /\ AccExact(self)) =>
        /\ Gt(Quadratic(self).discriminant, Zero)
        /\ RootSelectionFailure(ret) <=>
               /\ MovingTowardTarget(self)
               /\ Ge(DecelDistance(self), fabs(Sub(self.pe, self.p0)))
        /\ ~DiscriminantFailure(ret)
        /\ ~GeneralDiagnostic(ret)

\* calc_trajectory has failed on a request whose deceleration distance is
\* exactly the displacement.
C26_FailedAtEquality ==
    /\ cls = "acc"
    /\ AccExact(self)
    /\ RootSelectionFailure(ret)
    /\ DecelDistance(self) = fabs(Sub(self.pe, self.p0))


PeakVelocity(s) ==
    LET q == Quadratic(s)
    IN  v_integ(s.v0, q.acc, SelectRoot(q))

\* C28: whenever the trapezoidal calc_trajectory returns a plan with
\* motion, the case is 0 exactly when |v0 + acc*t1| < vmax; in case 0 the
\* plan has two phases, of accelerations (acc, -dec) and durations
\* (t1, |v1 - ve|/dec_max); in case 1 it has three phases, the second of
\* acceleration 0 entered at velocity vmax*sign and the third of
\* acceleration -dec (acc and dec carrying the sign of pe - p0).
C28_RegimeSelection ==
    (Planned("acc") /\ self.case \in {-1, 0, 1} /\ self.pe # self.p0) =>
        LET q == Quadratic(self)
            t1 == SelectRoot(q)
            v1 == PeakVelocity(self)
        IN  /\ self.case \in {0, 1}
            /\ self.case = 0 <=> Lt(fabs(v1), self.vmax)
            /\ self.case = 0 =>
                   /\ Len(self.dt) = 2
                   /\ self.a = <<q.acc, Neg(q.dec)>>
                   /\ self.dt = <<t1, Div(fabs(Sub(v1, self.ve)),
                                          self.amax_decel)>>
                   /\ self.v = <<self.v0, v1>>
            /\ self.case = 1 =>
                   /\ Len(self.dt) = 3
                   /\ Len(self.a) = 3
                   /\ self.a[2] = Zero
                   /\ self.v[2] = Mul(self.vmax, q.sign)
                   /\ self.v[3] = Mul(self.vmax, q.sign)
                   /\ self.a[3] = Neg(q.dec)

\* calc_trajectory has returned a plan whose acceleration time leads to
\* vmax exactly, toward the negative side.
C28_PeakAtCap ==
    /\ Planned("acc")
    /\ self.case = 1
    /\ Lt(self.pe, self.p0)
    /\ fabs(PeakVelocity(self)) = self.vmax


\* calc_trajectory has planned the first phase of case 1 for the request
\* on the instance: it has returned the plan, or raised for a negative
\* cruise duration.
CapReached ==
    /\ cls = "acc"
    /\ ret.op = "calc_trajectory"
    /\ self.pe # self.p0
    /\ self.case = 1
    /\ \/ ret.outcome = "return"
       \/ ret.msg = "Invalid trajectory: cannot reach target with given constraints"

\* C29: whenever the trapezoidal calc_trajectory plans case 1, with
\* sign = +-1 the direction of pe - p0: if sign*v0 >= vmax the first phase
\* has acceleration -dec and duration |vmax*sign - v0|/dec_max and one
\* overspeed warning is issued; if sign*v0 < vmax it has acceleration +acc
\* and duration |vmax*sign - v0|/acc_max and no warning is issued; either
\* way the first phase starts at v0 and ends at velocity vmax*sign.
C29_FirstPhaseOfCase1 ==
    CapReached =>
        LET q == Quadratic(self)
            cap == Mul(self.vmax, q.sign)
            gap == fabs(Sub(cap, self.v0))
        IN  /\ Ge(Mul(q.sign, self.v0), self.vmax) =>
                   /\ self.a[1] = Neg(q.dec)
                   /\ self.dt[1] = Div(gap, self.amax_decel)
                   /\ ret.warnings = 1
            /\ Lt(Mul(q.sign, self.v0), self.vmax) =>
                   /\ self.a[1] = q.acc
                   /\ self.dt[1] = Div(gap, self.amax_accel)
                   /\ ret.warnings = 0
            /\ self.v[1] = self.v0
            /\ v_integ(self.v[1], self.a[1], self.dt[1]) = cap
            /\ self.v[2] = cap

\* calc_trajectory has returned a case 1 plan for a start at vmax exactly,
\* toward the target, with different acceleration and deceleration limits.
C29_StartAtCap ==
    /\ CapReached
    /\ ret.outcome = "return"
    /\ Mul(Quadratic(self).sign, self.v0) = self.vmax
    /\ self.amax_accel # self.amax_decel


\* C30: every phase duration of a plan that calc_trajectory returned is
\* >= 0.  Trapezoidal planner: each entry of dt is >= 0 (a negative cruise
\* duration raises instead of returning).  Jerk planner, with positive
\* limits and nonzero displacement: t1 >= 0, t2 >= 0 in regimes 1-3,
\* t3 >= 0 in regime 3, and the returned total is 4*t1, 4*t1 + t2,
\* 4*t1 + 2*t2 or 4*t1 + 2*t2 + t3 by regime.
C30_PhaseDurationsNonNegative ==
    /\ (Planned("acc") /\ self.case \in {0, 1}) =>
           \A i \in 1..Len(self.dt) : Ge(self.dt[i], Zero)
    /\ (Planned("jerk") /\ self.case \in 0..3) =>
           LET four == <<4, 1>>
           IN  /\ Ge(self.t1, Zero)
               /\ self.case \in 1..3 => Ge(self.t2, Zero)
               /\ self.case = 3 => Ge(self.t3, Zero)
               /\ self.case = 0 => ret.value = Mul(four, self.t1)
               /\ self.case = 1 =>
                      ret.value = Add(Mul(four, self.t1), self.t2)
               /\ self.case = 2 =>
                      ret.value = Add(Mul(four, self.t1), Mul(Two, self.t2))
               /\ self.case = 3 =>
                      ret.value = Add(Add(Mul(four, self.t1),
                                          Mul(Two, self.t2)), self.t3)

=============================================================================
